---- MODULE Spec2Model ----
(***************************************************************************)
(* Model of the Ripple bridge of ledger-live-common                        *)
(* (src/unnamed/part_000, lines 211-946): account synchronisation          *)
(* (startSync, mergeOps, txToOperation), account discovery                 *)
(* (scanAccountsOnDevice) and draft validation (getTransactionStatus).     *)
(*                                                                         *)
(* Every awaited call of the JavaScript code is one action per outcome of  *)
(* the call; what the code does between two awaits is part of the action   *)
(* of the call that precedes it.  BigNumber values are records             *)
(* [kind, v]; a nullable value is the empty sequence (null) or a           *)
(* one-element sequence.  Array.prototype.sort is modelled as the stable   *)
(* sort ECMAScript 2019 specifies.                                         *)
(***************************************************************************)
EXTENDS Integers, Sequences, FiniteSets, TLC

(***************************************************************************)
(* Bounds of the model                                                     *)
(***************************************************************************)
\* longest list of transactions one getTransactions call returns
MaxBatch == 2
\* longest pendingOperations list of the account a sync starts from
MaxPending == 1
\* number of indices scanned in an iterable derivation mode (255 in the code)
MaxScanIndex == 2

(***************************************************************************)
(* Values                                                                  *)
(***************************************************************************)
Null == <<>>
Some(x) == <<x>>

\* BigNumber: a number, NaN or an infinity
BN(n) == [kind |-> "num", v |-> n]
BigNaN == [kind |-> "nan", v |-> 0]
BigInfinity == [kind |-> "inf", v |-> 1]
isNaN(b) == b.kind = "nan"
isFinite(b) == b.kind = "num"

(***************************************************************************)
(* Derivation (the utilities of ../../../derivation and the device)        *)
(***************************************************************************)
\* getDerivationModesForCurrency(currency); "" is the canonical mode
DerivationModes == << "legacy", "", "alt" >>

isIterableDerivationMode(derivationMode) == derivationMode # "legacy"

\* a mode may skip its first index
derivationModeSupportsIndex(derivationMode, index) ==
  ~ (derivationMode = "alt" /\ index = 0)

\* runDerivationScheme(derivationScheme, currency, { account: index })
runDerivationScheme(derivationMode, index) ==
  "44'/144'/" \o ToString(index) \o "'/0/0" \o derivationMode

\* the address the device answers getAddress with
AddressAt(derivationMode, index) == "r" \o derivationMode \o ToString(index)

\* `ripplejs:2:${currency.id}:${address}:${derivationMode}`
AccountIdOf(address, derivationMode) ==
  "ripplejs:2:ripple:" \o address \o ":" \o derivationMode

OwnAddress == AddressAt("", 0)
AccountId == AccountIdOf(OwnAddress, "")
OtherAddress == "rOther"

(***************************************************************************)
(* The remote ledger: the payments the chain API can report for the        *)
(* account.  h2 and h3 close in the same ledger (equal timestamp); h3 is   *)
(* an incoming payment, whose sequence is the sender's, not the account's. *)
(***************************************************************************)
Tx(id, sequence, timestamp, ledgerVersion, source, destination, tag) ==
  [id |-> id, sequence |-> sequence, timestamp |-> timestamp,
   ledgerVersion |-> ledgerVersion, source |-> source,
   destination |-> destination, tag |-> tag, fee |-> 1, deliveredAmount |-> 5]

LedgerHistory ==
  << Tx("h1", 3, 1, 1, OwnAddress, OtherAddress, Null),
     Tx("h2", 4, 2, 2, OwnAddress, OtherAddress, Some("7")),
     Tx("h3", 1, 2, 2, OtherAddress, OwnAddress, Null),
     Tx("h4", 2, 3, 3, OtherAddress, OwnAddress, Null) >>

RemoteLedger == { LedgerHistory[i] : i \in 1..Len(LedgerHistory) }

\* the lists of at most n elements of S
SeqsUpTo(S, n) == UNION { [1..k -> S] : k \in 0..n }

\* the answers of api.getTransactions for a ledger range
TransactionsIn(lo, hi) ==
  SeqsUpTo({ tx \in RemoteLedger : tx.ledgerVersion >= lo /\ tx.ledgerVersion <= hi },
           MaxBatch)

\* the answers of api.getTransactions for an address found by the scan: no
\* payment yet, or the payments of the range
ScannedTransactionsIn(lo, hi) ==
  LET inRange(tx) == tx.ledgerVersion >= lo /\ tx.ledgerVersion <= hi
  IN { <<>>, SelectSeq(LedgerHistory, inRange) }

\* serverInfo.completeLedgers, split at "-" and converted by Number
CompleteLedgers == { <<1, 2>>, <<2, 3>> }

\* info.xrpBalance converted by parseAPIValue
ReportedBalances == { BN(-1), BN(5), BigNaN, BigInfinity }

\* messages of the failures of the chain API
ErrorMessages == { "Network is down", "timeout" }

(***************************************************************************)
(* Pure functions                                                          *)
(***************************************************************************)
Range(s) == { s[i] : i \in 1..Len(s) }

Map(s, F(_)) == [i \in 1..Len(s) |-> F(s[i])]

\* array.filter(P)
Filter(s, P(_)) == SelectSeq(s, P)

\* txToOperation(account)(tx)
txToOperation(account, tx) ==
  LET type == IF tx.source = account.freshAddress THEN "OUT" ELSE "IN"
      feeValue == tx.fee
      value == IF type = "OUT" THEN tx.deliveredAmount + feeValue
               ELSE tx.deliveredAmount
  IN [id |-> <<account.id, tx.id, type>>,
      hash |-> tx.id,
      accountId |-> account.id,
      type |-> type,
      value |-> value,
      fee |-> feeValue,
      blockHeight |-> Some(tx.ledgerVersion),
      senders |-> <<tx.source>>,
      recipients |-> <<tx.destination>>,
      date |-> tx.timestamp,
      transactionSequenceNumber |-> tx.sequence,
      extra |-> tx.tag]

\* insertion of o in a list sorted by descending date, after the operations
\* of the same date
RECURSIVE InsertByDate(_, _)
InsertByDate(sorted, o) ==
  IF sorted = <<>> THEN <<o>>
  ELSE IF Head(sorted).date >= o.date
       THEN <<Head(sorted)>> \o InsertByDate(Tail(sorted), o)
       ELSE <<o>> \o sorted

\* all.sort((a, b) => b.date - a.date)
RECURSIVE SortByDateDesc(_)
SortByDateDesc(all) ==
  IF all = <<>> THEN <<>>
  ELSE InsertByDate(SortByDateDesc(SubSeq(all, 1, Len(all) - 1)), all[Len(all)])

\* mergeOps without the filter on the ids of the existing operations
mergeOps_NoIdFilter(existing, newFetched) ==
  SortByDateDesc(existing \o newFetched)

\* mergeOps without the final sort
mergeOps_NoSort(existing, newFetched) ==
  LET ids == { existing[i].id : i \in 1..Len(existing) }
      isNewId(o) == o.id \notin ids
  IN existing \o Filter(newFetched, isNewId)

\* mergeOps(existing, newFetched)
mergeOps(existing, newFetched) ==
  LET ids == { existing[i].id : i \in 1..Len(existing) }
      isNewId(o) == o.id \notin ids
      all == existing \o Filter(newFetched, isNewId)
  IN SortByDateDesc(all)

\* the filter of pendingOperations without the comparison of the hashes
KeepPending_NoHash(operations, oo) ==
  /\ operations # <<>>
  /\ operations[1].transactionSequenceNumber # 0
  /\ oo.transactionSequenceNumber # 0
  /\ oo.transactionSequenceNumber > operations[1].transactionSequenceNumber

\* the filter of pendingOperations in the update function of startSync
KeepPending(operations, oo) ==
  /\ ~ \E i \in 1..Len(operations) : oo.hash = operations[i].hash
  /\ operations # <<>>
  /\ operations[1].transactionSequenceNumber # 0
  /\ oo.transactionSequenceNumber # 0
  /\ oo.transactionSequenceNumber > operations[1].transactionSequenceNumber

\* the update functions startSync emits; u is what the closure captured
SyncUpdate(kind, transactions, balance, maxLedgerVersion) ==
  [kind |-> kind, transactions |-> transactions, balance |-> balance,
   maxLedgerVersion |-> maxLedgerVersion]

NoUpdate == SyncUpdate("none", <<>>, BN(0), 0)

\* the update of an account not found that also sets blockHeight to zero
TouchUpdate_ResetHeight(a, now) ==
  [a EXCEPT !.lastSyncDate = now, !.blockHeight = 0]

\* a => ({ ...a, lastSyncDate: new Date() })
TouchUpdate(a, now) == [a EXCEPT !.lastSyncDate = now]

ApplyUpdate(u, a, now) ==
  IF u.kind = "touch"
  THEN TouchUpdate(a, now)
  ELSE LET toOp(tx) == txToOperation(a, tx)
           newOps == Map(u.transactions, toOp)
           operations == mergeOps(a.operations, newOps)
           keep(oo) == KeepPending(operations, oo)
       IN [a EXCEPT !.balance = u.balance,
                    !.operations = operations,
                    !.pendingOperations = Filter(a.pendingOperations, keep),
                    !.blockHeight = u.maxLedgerVersion,
                    !.lastSyncDate = now]

\* remapError(e), on the message of e
remapError(msg) ==
  IF msg \in { "Unable to resolve host", "Network is down" }
  THEN "NetworkDown" ELSE msg

\* Math.max giving its first argument
Max_First(a, b) == a

Max(a, b) == IF a >= b THEN a ELSE b

(***************************************************************************)
(* State                                                                   *)
(***************************************************************************)
VARIABLES
  account,       \* the account record the caller holds
  initialAccount,\* the account startSync was given
  prevAccount,   \* the account the last applied update was applied to
  syncPc,        \* the await startSync's main is suspended at
  syncFinished,  \* finished, the flag unsubscribe sets
  syncArgs,      \* blockHeight and operations.length captured by startSync
  syncLedgers,   \* <<minLedgerVersion, maxLedgerVersion>>
  syncBalance,   \* balance
  syncRequest,   \* the ledger range passed to api.getTransactions
  syncEmitted,   \* the update function passed to o.next
  syncOutcome,   \* "complete", an error name, or "returned"
  applied        \* times syncEmitted has been applied to account: 0, 1, 2 (or more)

syncVars == <<account, initialAccount, prevAccount, syncPc, syncFinished, syncArgs,
              syncLedgers, syncBalance, syncRequest, syncEmitted, syncOutcome,
              applied>>

VARIABLES
  scanPc,        \* the await scanAccountsOnDevice's main is suspended at
  scanFinished,  \* finished, the flag unsubscribe sets
  scanMode,      \* position of derivationMode in derivationModes
  scanIndex,     \* index
  scanLedgers,   \* <<minLedgerVersion, maxLedgerVersion>>
  scanBalance,   \* balance
  scanEmitted,   \* the accounts passed to o.next, in order
  scanProbed,    \* the <<mode, index>> getAddress was called for
  scanNotFound,  \* the <<mode, index>> getAccountInfo answered actNotFound for
  scanOutcome,   \* "complete", an error message, or "returned"
  transport      \* the device connection: "none", "open", "closed"

scanVars == <<scanPc, scanFinished, scanMode, scanIndex, scanLedgers, scanBalance,
              scanEmitted, scanProbed, scanNotFound, scanOutcome, transport>>

VARIABLES
  statusPc,            \* the await getTransactionStatus is suspended at
  statusInput,         \* its arguments a and t
  statusReserve,       \* reserveBaseXRP
  statusResult,        \* what it resolved with
  statusOutcome,       \* "resolved" or "rejected"
  statusPromise,       \* the promise it awaits, as its place in promises
  statusSubmitted,     \* a payment to t.recipient was submitted before the call
  cacheRecipientsNew,  \* recipient -> place of the cached promise among its promises, or 0
  promises,            \* recipient -> the promises recipientIsNew returned, in order
  destinationCreated   \* the chain has an account at DestinationAddress

statusVars == <<statusPc, statusInput, statusReserve, statusResult, statusOutcome,
                statusPromise, statusSubmitted, cacheRecipientsNew, promises,
                destinationCreated>>

VARIABLES
  signPc,          \* the await doSignAndBroadcast is suspended at
  signInput,       \* a and t of signAndBroadcast(a, t, deviceId)
  signCancelled,   \* cancelled, the flag the unsubscription sets
  signCancelledAt, \* the await that was pending when cancelled was set
  signTransport,   \* the device connection: "none", "open", "closed"
  signApi,         \* the connection of api: "none", "connected", "disconnected"
  signSubmits,     \* calls of api.submit
  signResult,      \* submittedPayment.resultCode, "none" before submit returns
  signThrown,      \* the error an awaited call threw, if one did
  signEvents,      \* the events passed to o.next, in order
  signOutcome,     \* "complete" or "error"
  signError        \* the error passed to o.error

signVars == <<signPc, signInput, signCancelled, signCancelledAt, signTransport,
              signApi, signSubmits, signResult, signThrown, signEvents,
              signOutcome, signError>>

VARIABLES
  buildPc,         \* the await the builder is suspended at
  buildInput,      \* family, transaction and tokenAccount
  buildCancelled,  \* what isCancelled() returns
  buildCallsThen,  \* number of calls made when isCancelled() became true
  buildCalls,      \* the calls made on transactionBuilder, in order
  buildOutcome     \* "builded", "nothing", or the error thrown

buildVars == <<buildPc, buildInput, buildCancelled, buildCallsThen, buildCalls,
               buildOutcome>>

VARIABLES
  clock,           \* Date.now(), in milliseconds
  map,             \* endpoint -> the throttled function of getServerInfo
  requests,        \* the requests the throttled functions started, in order
  calls            \* the calls of getServerInfo and what each returned, in order

serverVars == <<clock, map, requests, calls>>

vars == <<syncVars, scanVars, statusVars, signVars, buildVars, serverVars>>

\* the operations signAndBroadcast left in pendingOperations
PendingOp(hash, sequence) ==
  [id |-> <<AccountId, hash, "OUT">>,
   hash |-> hash,
   accountId |-> AccountId,
   type |-> "OUT",
   value |-> 5,
   fee |-> 1,
   blockHeight |-> Null,
   senders |-> <<OwnAddress>>,
   recipients |-> <<OtherAddress>>,
   date |-> 4,
   transactionSequenceNumber |-> sequence,
   extra |-> Null]

PendingOps ==
  { PendingOp("h2", 5), PendingOp("h9", 5), PendingOp("h9", 3), PendingOp("h9", 0) }

\* new Date() when the account was discovered, and when an update is applied
Discovered == 5
Now == 6

\* The accounts startSync is given: as scanAccountsOnDevice built them
\* (operations in the order the API listed the transactions), with the
\* operations the caller appended to pendingOperations since.
InitialAccounts ==
  { [id |-> AccountId,
     freshAddress |-> OwnAddress,
     balance |-> BN(5),
     blockHeight |-> h,
     operations |-> [i \in 1..Len(txs) |->
                      txToOperation([id |-> AccountId, freshAddress |-> OwnAddress],
                                    txs[i])],
     pendingOperations |-> p,
     lastSyncDate |-> Discovered] :
       h \in { 1, 3 },
       txs \in SeqsUpTo(RemoteLedger, MaxBatch),
       p \in SeqsUpTo(PendingOps, MaxPending) }

NoArgs == [blockHeight |-> 0, currentOpsLength |-> 0]

SyncInit ==
  /\ account \in InitialAccounts
  /\ prevAccount = account
  /\ initialAccount = account
  /\ syncPc = "idle"
  /\ syncFinished = FALSE
  /\ syncArgs = NoArgs
  /\ syncLedgers = <<0, 0>>
  /\ syncBalance = BN(0)
  /\ syncRequest = <<0, 0>>
  /\ syncEmitted = NoUpdate
  /\ syncOutcome = "none"
  /\ applied = 0

(***************************************************************************)
(* startSync                                                               *)
(***************************************************************************)
\* startSync(account).subscribe(): main() runs up to await api.connect()
startSync ==
  /\ syncPc = "idle"
  /\ syncPc' = "connect"
  /\ syncFinished' = FALSE
  /\ syncArgs' = [blockHeight |-> account.blockHeight,
                  currentOpsLength |-> Len(account.operations)]
  /\ syncOutcome' = "none"
  /\ UNCHANGED <<account, initialAccount, prevAccount, syncLedgers, syncBalance,
                 syncRequest, syncEmitted, applied>>
  /\ UNCHANGED <<scanVars, statusVars, signVars, buildVars, serverVars>>

\* the function returned to the subscriber
SyncUnsubscribe ==
  /\ syncPc \notin { "idle", "done" }
  /\ ~ syncFinished
  /\ syncFinished' = TRUE
  /\ UNCHANGED <<account, initialAccount, prevAccount, syncPc, syncArgs, syncLedgers,
                 syncBalance, syncRequest, syncEmitted, syncOutcome, applied>>
  /\ UNCHANGED <<scanVars, statusVars, signVars, buildVars, serverVars>>

\* main() is over (return, o.complete() or o.error(e)): its locals are gone
SyncEnd(outcome) ==
  /\ syncPc' = "done"
  /\ syncOutcome' = outcome
  /\ syncArgs' = NoArgs
  /\ syncLedgers' = <<0, 0>>
  /\ syncBalance' = BN(0)
  /\ syncRequest' = <<0, 0>>

\* an awaited call throws: o.error(remapError(e))
SyncFail(at) ==
  /\ syncPc = at
  /\ \E msg \in ErrorMessages : SyncEnd(remapError(msg))
  /\ UNCHANGED <<account, initialAccount, prevAccount, syncFinished, syncEmitted, applied>>
  /\ UNCHANGED <<scanVars, statusVars, signVars, buildVars, serverVars>>

SyncConnectFails == SyncFail("connect")
SyncServerInfoFails == SyncFail("getServerInfo")
SyncAccountInfoFails == SyncFail("getAccountInfo")
SyncTransactionsFail == SyncFail("getTransactions")

\* await api.connect(); if (finished) return;
SyncConnected ==
  /\ syncPc = "connect"
  /\ IF syncFinished
     THEN SyncEnd("returned")
     ELSE /\ syncPc' = "getServerInfo"
          /\ UNCHANGED <<syncArgs, syncLedgers, syncBalance, syncRequest, syncOutcome>>
  /\ UNCHANGED <<account, initialAccount, prevAccount, syncFinished, syncEmitted, applied>>
  /\ UNCHANGED <<scanVars, statusVars, signVars, buildVars, serverVars>>

\* await getServerInfo(endpointConfig); if (finished) return;
SyncServerInfo ==
  /\ syncPc = "getServerInfo"
  /\ \E ledgers \in CompleteLedgers :
       IF syncFinished
       THEN SyncEnd("returned")
       ELSE /\ syncLedgers' = ledgers
            /\ syncPc' = "getAccountInfo"
            /\ UNCHANGED <<syncArgs, syncBalance, syncRequest, syncOutcome>>
  /\ UNCHANGED <<account, initialAccount, prevAccount, syncFinished, syncEmitted, applied>>
  /\ UNCHANGED <<scanVars, statusVars, signVars, buildVars, serverVars>>

\* api.getAccountInfo throws actNotFound: info stays undefined
SyncAccountNotFound ==
  /\ syncPc = "getAccountInfo"
  /\ IF syncFinished
     THEN /\ SyncEnd("returned")
          /\ UNCHANGED <<syncEmitted, applied>>
     ELSE /\ syncEmitted' = SyncUpdate("touch", <<>>, BN(0), 0)
          /\ applied' = 0
          /\ SyncEnd("complete")
  /\ UNCHANGED <<account, initialAccount, prevAccount, syncFinished>>
  /\ UNCHANGED <<scanVars, statusVars, signVars, buildVars, serverVars>>

\* api.getAccountInfo returns info
SyncAccountInfo ==
  /\ syncPc = "getAccountInfo"
  /\ \E balance \in ReportedBalances :
       IF syncFinished
       THEN SyncEnd("returned")
       ELSE IF ~ (~ isNaN(balance) /\ isFinite(balance))
       THEN SyncEnd(remapError("Invariant Violation"))
       ELSE /\ syncBalance' = balance
            /\ syncRequest' =
                 << Max(IF syncArgs.currentOpsLength = 0 THEN 0
                        ELSE syncArgs.blockHeight,
                        syncLedgers[1]),
                    syncLedgers[2] >>
            /\ syncPc' = "getTransactions"
            /\ UNCHANGED <<syncArgs, syncLedgers, syncOutcome>>
  /\ UNCHANGED <<account, initialAccount, prevAccount, syncFinished, syncEmitted, applied>>
  /\ UNCHANGED <<scanVars, statusVars, signVars, buildVars, serverVars>>

\* await api.getTransactions(...); if (finished) return; o.next(a => ...)
SyncTransactions ==
  /\ syncPc = "getTransactions"
  /\ \E transactions \in TransactionsIn(syncRequest[1], syncRequest[2]) :
       IF syncFinished
       THEN /\ SyncEnd("returned")
            /\ UNCHANGED <<syncEmitted, applied>>
       ELSE /\ syncEmitted' =
                 SyncUpdate("merge", transactions, syncBalance, syncLedgers[2])
            /\ applied' = 0
            /\ SyncEnd("complete")
  /\ UNCHANGED <<account, initialAccount, prevAccount, syncFinished>>
  /\ UNCHANGED <<scanVars, statusVars, signVars, buildVars, serverVars>>

\* the caller applies the emitted update function to the account it holds
SyncApply ==
  /\ syncEmitted.kind # "none"
  /\ applied' = IF applied = 0 THEN 1 ELSE 2
  /\ prevAccount' = account
  /\ account' = ApplyUpdate(syncEmitted, account, Now)
  /\ UNCHANGED <<initialAccount, syncPc, syncFinished, syncArgs, syncLedgers,
                 syncBalance, syncRequest, syncEmitted, syncOutcome>>
  /\ UNCHANGED <<scanVars, statusVars, signVars, buildVars, serverVars>>

SyncNext ==
  \/ startSync
  \/ SyncUnsubscribe
  \/ SyncConnected
  \/ SyncConnectFails
  \/ SyncServerInfo
  \/ SyncServerInfoFails
  \/ SyncAccountNotFound
  \/ SyncAccountInfo
  \/ SyncAccountInfoFails
  \/ SyncTransactions
  \/ SyncTransactionsFail
  \/ SyncApply


(***************************************************************************)
(* scanAccountsOnDevice                                                    *)
(***************************************************************************)
ScanDone == <<0, 0>>

\* stopAt
StopAt(derivationMode) ==
  IF isIterableDerivationMode(derivationMode) THEN MaxScanIndex ELSE 1

\* the first <<mode, index>> the two nested loops reach from (m, i) on,
\* passing the indices the mode does not support; ScanDone past the last mode
RECURSIVE FirstProbe(_, _)
FirstProbe(m, i) ==
  IF m > Len(DerivationModes) THEN ScanDone
  ELSE IF i >= StopAt(DerivationModes[m]) THEN FirstProbe(m + 1, 0)
  ELSE IF ~ derivationModeSupportsIndex(DerivationModes[m], i) THEN FirstProbe(m, i + 1)
  ELSE <<m, i>>

\* continue instead of break
AfterNotFound_Continue(m, i) == FirstProbe(m, i + 1)

\* break: the loop over the indices of mode m is left
AfterNotFound(m, i) == FirstProbe(m + 1, 0)

\* the end of an iteration of the inner loop: index++
AfterFound(m, i) == FirstProbe(m, i + 1)

\* the placeholder account of an address that does not exist on the chain
NewAccount(derivationMode, index, address, maxLedgerVersion) ==
  [id |-> AccountIdOf(address, derivationMode),
   seedIdentifier |-> address,
   derivationMode |-> derivationMode,
   name |-> "NewAccountPlaceholderName",
   freshAddress |-> address,
   freshAddressPath |-> runDerivationScheme(derivationMode, index),
   balance |-> BN(0),
   blockHeight |-> maxLedgerVersion,
   index |-> index,
   operations |-> <<>>,
   pendingOperations |-> <<>>,
   lastSyncDate |-> Discovered]

\* the account of an address that exists on the chain
ExistingAccount(derivationMode, index, address, balance, maxLedgerVersion, transactions) ==
  LET a == [id |-> AccountIdOf(address, derivationMode),
            seedIdentifier |-> address,
            derivationMode |-> derivationMode,
            name |-> "AccountPlaceholderName",
            freshAddress |-> address,
            freshAddressPath |-> runDerivationScheme(derivationMode, index),
            balance |-> balance,
            blockHeight |-> maxLedgerVersion,
            index |-> index,
            operations |-> <<>>,
            pendingOperations |-> <<>>,
            lastSyncDate |-> Discovered]
      toOp(tx) == txToOperation(a, tx)
  IN [a EXCEPT !.operations = Map(transactions, toOp)]

ScanInit ==
  /\ scanPc = "idle"
  /\ scanFinished = FALSE
  /\ scanMode = 0
  /\ scanIndex = 0
  /\ scanLedgers = <<0, 0>>
  /\ scanBalance = BN(0)
  /\ scanEmitted = <<>>
  /\ scanProbed = {}
  /\ scanNotFound = {}
  /\ scanOutcome = "none"
  /\ transport = "none"

\* scanAccountsOnDevice(currency, deviceId).subscribe(): main() runs up to
\* await open(deviceId); the device serves one operation in a behaviour,
\* a scan or a subscription to signAndBroadcast
scanAccountsOnDevice ==
  /\ scanPc = "idle"
  /\ signPc = "idle"
  /\ scanPc' = "open"
  /\ UNCHANGED <<scanFinished, scanMode, scanIndex, scanLedgers, scanBalance,
                 scanEmitted, scanProbed, scanNotFound, scanOutcome, transport>>
  /\ UNCHANGED <<syncVars, statusVars, signVars, buildVars, serverVars>>

\* the function returned to the subscriber
ScanUnsubscribe ==
  /\ scanPc \notin { "idle", "done" }
  /\ ~ scanFinished
  /\ scanFinished' = TRUE
  /\ UNCHANGED <<scanPc, scanMode, scanIndex, scanLedgers, scanBalance,
                 scanEmitted, scanProbed, scanNotFound, scanOutcome, transport>>
  /\ UNCHANGED <<syncVars, statusVars, signVars, buildVars, serverVars>>

\* a finally block leaves the device connection as it is
CloseTransport_Never(t) == t

\* transport.close() of a finally block, on the transport that was opened
CloseTransport(t) == IF t = "open" THEN "closed" ELSE t

\* main() is over (return, o.complete() or o.error(e)); finally:
\* api.disconnect(); if (transport) await transport.close()
ScanEnd(outcome) ==
  /\ scanPc' = "done"
  /\ scanOutcome' = outcome
  /\ transport' = CloseTransport(transport)
  /\ scanMode' = 0
  /\ scanIndex' = 0
  /\ scanLedgers' = <<0, 0>>
  /\ scanBalance' = BN(0)

\* the loops go on at position next: getAddress is called for it, or the
\* loops are over and o.complete() is called
ScanGoOn(next) ==
  IF next = ScanDone
  THEN /\ ScanEnd("complete")
       /\ UNCHANGED scanProbed
  ELSE /\ scanPc' = "getAddress"
       /\ scanMode' = next[1]
       /\ scanIndex' = next[2]
       /\ scanProbed' = scanProbed \cup { next }
       /\ UNCHANGED <<scanLedgers, scanBalance, scanOutcome, transport>>

\* an awaited call throws: o.error(e)
ScanFail(at) ==
  /\ scanPc = at
  /\ \E msg \in ErrorMessages : ScanEnd(msg)
  /\ UNCHANGED <<scanFinished, scanEmitted, scanProbed, scanNotFound>>
  /\ UNCHANGED <<syncVars, statusVars, signVars, buildVars, serverVars>>

ScanOpenFails == ScanFail("open")
ScanConnectFails == ScanFail("connect")
ScanServerInfoFails == ScanFail("getServerInfo")
ScanAddressFails == ScanFail("getAddress")
ScanAccountInfoFails == ScanFail("getAccountInfo")
ScanTransactionsFail == ScanFail("getTransactions")

\* transport = await open(deviceId)
ScanOpened ==
  /\ scanPc = "open"
  /\ scanPc' = "connect"
  /\ transport' = "open"
  /\ UNCHANGED <<scanFinished, scanMode, scanIndex, scanLedgers, scanBalance,
                 scanEmitted, scanProbed, scanNotFound, scanOutcome>>
  /\ UNCHANGED <<syncVars, statusVars, signVars, buildVars, serverVars>>

\* await api.connect()
ScanConnected ==
  /\ scanPc = "connect"
  /\ scanPc' = "getServerInfo"
  /\ UNCHANGED <<scanFinished, scanMode, scanIndex, scanLedgers, scanBalance,
                 scanEmitted, scanProbed, scanNotFound, scanOutcome, transport>>
  /\ UNCHANGED <<syncVars, statusVars, signVars, buildVars, serverVars>>

\* await getServerInfo(); the loops start
ScanServerInfo ==
  /\ scanPc = "getServerInfo"
  /\ \E ledgers \in CompleteLedgers :
       LET next == FirstProbe(1, 0)
       IN IF next = ScanDone
          THEN /\ ScanEnd("complete")
               /\ UNCHANGED scanProbed
          ELSE /\ scanLedgers' = ledgers
               /\ scanPc' = "getAddress"
               /\ scanMode' = next[1]
               /\ scanIndex' = next[2]
               /\ scanProbed' = scanProbed \cup { next }
               /\ UNCHANGED <<scanBalance, scanOutcome, transport>>
  /\ UNCHANGED <<scanFinished, scanEmitted, scanNotFound>>
  /\ UNCHANGED <<syncVars, statusVars, signVars, buildVars, serverVars>>

\* await getAddress(transport, ...); if (finished) return;
ScanAddress ==
  /\ scanPc = "getAddress"
  /\ IF scanFinished
     THEN ScanEnd("returned")
     ELSE /\ scanPc' = "getAccountInfo"
          /\ UNCHANGED <<scanMode, scanIndex, scanLedgers, scanBalance,
                         scanOutcome, transport>>
  /\ UNCHANGED <<scanFinished, scanEmitted, scanProbed, scanNotFound>>
  /\ UNCHANGED <<syncVars, statusVars, signVars, buildVars, serverVars>>

\* api.getAccountInfo throws actNotFound: info stays undefined
ScanAccountNotFound ==
  /\ scanPc = "getAccountInfo"
  /\ scanNotFound' = scanNotFound \cup { <<scanMode, scanIndex>> }
  /\ scanEmitted' =
       IF DerivationModes[scanMode] = ""
       THEN Append(scanEmitted,
                   NewAccount(DerivationModes[scanMode], scanIndex,
                              AddressAt(DerivationModes[scanMode], scanIndex),
                              scanLedgers[2]))
       ELSE scanEmitted
  /\ ScanGoOn(AfterNotFound(scanMode, scanIndex))
  /\ UNCHANGED scanFinished
  /\ UNCHANGED <<syncVars, statusVars, signVars, buildVars, serverVars>>

\* api.getAccountInfo returns info
ScanAccountInfo ==
  /\ scanPc = "getAccountInfo"
  /\ \E balance \in ReportedBalances :
       IF scanFinished
       THEN ScanEnd("returned")
       ELSE IF ~ (~ isNaN(balance) /\ isFinite(balance))
       THEN ScanEnd("Invariant Violation")
       ELSE /\ scanBalance' = balance
            /\ scanPc' = "getTransactions"
            /\ UNCHANGED <<scanMode, scanIndex, scanLedgers, scanOutcome, transport>>
  /\ UNCHANGED <<scanFinished, scanEmitted, scanProbed, scanNotFound>>
  /\ UNCHANGED <<syncVars, statusVars, signVars, buildVars, serverVars>>

\* await api.getTransactions(...); if (finished) return; o.next(...)
ScanTransactions ==
  /\ scanPc = "getTransactions"
  /\ \E transactions \in ScannedTransactionsIn(scanLedgers[1], scanLedgers[2]) :
       IF scanFinished
       THEN /\ ScanEnd("returned")
            /\ UNCHANGED <<scanEmitted, scanProbed>>
       ELSE /\ scanEmitted' =
                 Append(scanEmitted,
                        ExistingAccount(DerivationModes[scanMode], scanIndex,
                                        AddressAt(DerivationModes[scanMode], scanIndex),
                                        scanBalance, scanLedgers[2], transactions))
            /\ ScanGoOn(AfterFound(scanMode, scanIndex))
  /\ UNCHANGED <<scanFinished, scanNotFound>>
  /\ UNCHANGED <<syncVars, statusVars, signVars, buildVars, serverVars>>

ScanNext ==
  \/ scanAccountsOnDevice
  \/ ScanUnsubscribe
  \/ ScanOpened
  \/ ScanOpenFails
  \/ ScanConnected
  \/ ScanConnectFails
  \/ ScanServerInfo
  \/ ScanServerInfoFails
  \/ ScanAddress
  \/ ScanAddressFails
  \/ ScanAccountNotFound
  \/ ScanAccountInfo
  \/ ScanAccountInfoFails
  \/ ScanTransactions
  \/ ScanTransactionsFail

(***************************************************************************)
(* getTransactionStatus                                                    *)
(***************************************************************************)
DestinationAddress == "rDest"

\* bs58check.decode(recipient) does not throw
isRecipientValid(recipient) == recipient \in { OwnAddress, DestinationAddress }

\* the drafts and accounts getTransactionStatus is called with; fee is null
\* or a BigNumber, amount a BigNumber
StatusRecipients == { "", OwnAddress, DestinationAddress, "not-an-address" }
StatusDrafts ==
  [fee : { Null, Some(0), Some(1), Some(4) },
   amount : { 0, 9, 10, 40 },
   recipient : StatusRecipients]
StatusAccounts == [freshAddress : { OwnAddress }, balance : { 20, 60 }]

\* parseAPIValue(r.validatedLedger.reserveBaseXRP)
ReserveBases == { 10, 20 }

Err(name) == [name |-> name, minimalAmount |-> Null]

\* BigNumber(t.fee || 0)
EstimatedFees(t) == IF t.fee = Null THEN 0 ELSE t.fee[1]

\* BigNumber(t.amount).plus(estimatedFees)
TotalSpent(t) == t.amount + EstimatedFees(t)

\* the warning without the test of amount.gt(0)
StatusWarnings_AnyAmount(t) ==
  IF EstimatedFees(t) * 10 > t.amount THEN { "feeTooHigh" } ELSE {}

\* the keys of warnings: amount.gt(0) && estimatedFees.times(10).gt(amount)
StatusWarnings(t) ==
  IF t.amount > 0 /\ EstimatedFees(t) * 10 > t.amount
  THEN { "feeTooHigh" } ELSE {}

\* the chain of fee checks stops at the first three conditions: the call
\* goes on to await cachedRecipientIsNew
ReachesRecipientIsNew(a, t, reserveBaseXRP) ==
  /\ t.fee # Null
  /\ t.fee[1] # 0
  /\ ~ (TotalSpent(t) > a.balance - reserveBaseXRP)
  /\ t.recipient # ""

\* the fee and amount checks with the balance compared by gte
FeeAndAmountErrors_Gte(a, t, reserveBaseXRP, isNew) ==
  IF t.fee = Null THEN { <<"fee", Err("FeeNotLoaded")>> }
  ELSE IF t.fee[1] = 0 THEN { <<"fee", Err("FeeRequired")>> }
  ELSE IF TotalSpent(t) >= a.balance - reserveBaseXRP
  THEN { <<"amount", Err("NotEnoughBalance")>> }
  ELSE IF t.recipient # "" /\ isNew /\ t.amount < reserveBaseXRP
  THEN { <<"amount", [name |-> "NotEnoughBalanceBecauseDestinationNotCreated",
                      minimalAmount |-> Some(reserveBaseXRP)]>> }
  ELSE {}

\* the if / else if chain on t.fee, the balance and the new destination;
\* isNew is what the awaited cachedRecipientIsNew resolved with
FeeAndAmountErrors(a, t, reserveBaseXRP, isNew) ==
  IF t.fee = Null THEN { <<"fee", Err("FeeNotLoaded")>> }
  ELSE IF t.fee[1] = 0 THEN { <<"fee", Err("FeeRequired")>> }
  ELSE IF TotalSpent(t) > a.balance - reserveBaseXRP
  THEN { <<"amount", Err("NotEnoughBalance")>> }
  ELSE IF t.recipient # "" /\ isNew /\ t.amount < reserveBaseXRP
  THEN { <<"amount", [name |-> "NotEnoughBalanceBecauseDestinationNotCreated",
                      minimalAmount |-> Some(reserveBaseXRP)]>> }
  ELSE {}

\* the chain on t.recipient without the comparison with a.freshAddress
RecipientErrors_NoSelf(a, t) ==
  IF t.recipient = "" THEN { <<"recipient", Err("RecipientRequired")>> }
  ELSE IF ~ isRecipientValid(t.recipient)
  THEN { <<"recipient", Err("InvalidAddress")>> }
  ELSE {}

\* the if / else if chain on t.recipient
RecipientErrors(a, t) ==
  IF t.recipient = "" THEN { <<"recipient", Err("RecipientRequired")>> }
  ELSE IF a.freshAddress = t.recipient
  THEN { <<"recipient", Err("InvalidAddressBecauseDestinationIsAlsoSource")>> }
  ELSE IF ~ isRecipientValid(t.recipient)
  THEN { <<"recipient", Err("InvalidAddress")>> }
  ELSE {}

\* the object of the entries set on errors
ErrorsObject(entries) ==
  [k \in { e[1] : e \in entries } |-> (CHOOSE e \in entries : e[1] = k)[2]]

\* what getTransactionStatus resolves with
StatusOf(a, t, reserveBaseXRP, isNew) ==
  [errors |-> ErrorsObject(FeeAndAmountErrors(a, t, reserveBaseXRP, isNew)
                            \cup RecipientErrors(a, t)),
   warnings |-> StatusWarnings(t),
   estimatedFees |-> EstimatedFees(t),
   amount |-> t.amount,
   totalSpent |-> TotalSpent(t)]

NoStatus ==
  [errors |-> ErrorsObject({}), warnings |-> {}, estimatedFees |-> 0,
   amount |-> 0, totalSpent |-> 0]

NoInput ==
  [a |-> [freshAddress |-> OwnAddress, balance |-> 0],
   t |-> [fee |-> Null, amount |-> 0, recipient |-> ""]]

StatusInit ==
  /\ statusPc = "idle"
  /\ statusInput = NoInput
  /\ statusReserve = 0
  /\ statusResult = NoStatus
  /\ statusOutcome = "none"
  /\ statusPromise = 0
  /\ statusSubmitted = FALSE
  /\ cacheRecipientsNew = [r \in StatusRecipients \ { "" } |-> 0]
  /\ promises = [r \in StatusRecipients \ { "" } |-> <<>>]
  /\ destinationCreated = FALSE

\* a "broadcasted" event of a payment to the recipient has been emitted
Submitted(recipient) ==
  /\ signInput.t.recipient = recipient
  /\ \E i \in 1..Len(signEvents) : signEvents[i].type = "broadcasted"

\* the promise recipientIsNew(endpointConfig, recipient) returns
NewPromise == [state |-> "pending", submitted |-> FALSE]

\* cachedRecipientIsNew(endpointConfig, recipient), on the cache: the entry
\* of the recipient is kept, or set to promise n when there is none
CacheAfterLookup(cache, recipient, n) ==
  IF cache[recipient] # 0 THEN cache ELSE [cache EXCEPT ![recipient] = n]

\* a delete that removes nothing
DeleteEntry_Nothing(cache, recipient) == cache

\* delete cacheRecipientsNew[recipient]
DeleteEntry(cache, recipient) ==
  [r \in DOMAIN cache |-> IF r = recipient THEN 0 ELSE cache[r]]

\* getTransactionStatus(a, t) runs up to await getServerInfo(a.endpointConfig)
getTransactionStatusOf(accounts, drafts) ==
  /\ statusPc \in { "idle", "done" }
  /\ \E a \in accounts, t \in drafts :
       /\ statusInput' = [a |-> a, t |-> t]
       /\ statusSubmitted' = Submitted(t.recipient)
  /\ statusPc' = "getServerInfo"
  /\ statusReserve' = 0
  /\ statusResult' = NoStatus
  /\ statusOutcome' = "none"
  /\ statusPromise' = 0
  /\ UNCHANGED <<cacheRecipientsNew, promises, destinationCreated>>
  /\ UNCHANGED <<syncVars, scanVars, signVars, buildVars, serverVars>>

getTransactionStatus == getTransactionStatusOf(StatusAccounts, StatusDrafts)

\* getServerInfo rejects: so does getTransactionStatus
StatusServerInfoFails ==
  /\ statusPc = "getServerInfo"
  /\ statusPc' = "done"
  /\ statusOutcome' = "rejected"
  /\ UNCHANGED <<statusInput, statusReserve, statusResult, statusPromise,
                 statusSubmitted, cacheRecipientsNew, promises, destinationCreated>>
  /\ UNCHANGED <<syncVars, scanVars, signVars, buildVars, serverVars>>

\* getServerInfo resolves; the checks run up to await cachedRecipientIsNew,
\* which starts recipientIsNew when the cache has no entry of the recipient,
\* or to the end
StatusServerInfo ==
  /\ statusPc = "getServerInfo"
  /\ \E reserveBaseXRP \in ReserveBases :
       /\ statusReserve' = reserveBaseXRP
       /\ IF ReachesRecipientIsNew(statusInput.a, statusInput.t, reserveBaseXRP)
          THEN /\ statusPc' = "cachedRecipientIsNew"
               /\ LET recipient == statusInput.t.recipient
                      n == Len(promises[recipient]) + 1
                  IN /\ cacheRecipientsNew' =
                          CacheAfterLookup(cacheRecipientsNew, recipient, n)
                     /\ promises' =
                          IF cacheRecipientsNew'[recipient] = n
                          THEN [promises EXCEPT ![recipient] = Append(@, NewPromise)]
                          ELSE promises
                     /\ statusPromise' = cacheRecipientsNew'[recipient]
               /\ UNCHANGED <<statusResult, statusOutcome>>
          ELSE /\ statusPc' = "done"
               /\ statusResult' =
                    StatusOf(statusInput.a, statusInput.t, reserveBaseXRP, FALSE)
               /\ statusOutcome' = "resolved"
               /\ UNCHANGED <<cacheRecipientsNew, promises, statusPromise>>
  /\ UNCHANGED <<statusInput, statusSubmitted, destinationCreated>>
  /\ UNCHANGED <<syncVars, scanVars, signVars, buildVars, serverVars>>

\* recipientIsNew(endpointConfig, recipient) settles: false for a recipient
\* that is not valid or that api.getAccountInfo finds, true on actNotFound
RecipientIsNewSettles ==
  /\ \E recipient \in DOMAIN promises : \E i \in 1..Len(promises[recipient]) :
       /\ promises[recipient][i].state = "pending"
       /\ promises' =
            [promises EXCEPT ![recipient][i] =
               [state |-> IF ~ isRecipientValid(recipient) THEN "false"
                          ELSE IF recipient = DestinationAddress
                                  /\ ~ destinationCreated
                          THEN "true" ELSE "false",
                submitted |-> Submitted(recipient)]]
  /\ UNCHANGED <<statusPc, statusInput, statusReserve, statusResult, statusOutcome,
                 statusPromise, statusSubmitted, cacheRecipientsNew,
                 destinationCreated>>
  /\ UNCHANGED <<syncVars, scanVars, signVars, buildVars, serverVars>>

\* api.connect or api.getAccountInfo fails in recipientIsNew
RecipientIsNewFails ==
  /\ \E recipient \in DOMAIN promises : \E i \in 1..Len(promises[recipient]) :
       /\ promises[recipient][i].state = "pending"
       /\ isRecipientValid(recipient)
       /\ promises' =
            [promises EXCEPT ![recipient][i] =
               [state |-> "rejected", submitted |-> Submitted(recipient)]]
  /\ UNCHANGED <<statusPc, statusInput, statusReserve, statusResult, statusOutcome,
                 statusPromise, statusSubmitted, cacheRecipientsNew,
                 destinationCreated>>
  /\ UNCHANGED <<syncVars, scanVars, signVars, buildVars, serverVars>>

\* the promise the call awaits
AwaitedPromise == promises[statusInput.t.recipient][statusPromise]

\* the awaited promise is settled
StatusRecipientIsNew ==
  /\ statusPc = "cachedRecipientIsNew"
  /\ AwaitedPromise.state \in { "true", "false", "rejected" }
  /\ statusPc' = "done"
  /\ IF AwaitedPromise.state = "rejected"
     THEN /\ statusOutcome' = "rejected"
          /\ UNCHANGED statusResult
     ELSE /\ statusOutcome' = "resolved"
          /\ statusResult' =
               StatusOf(statusInput.a, statusInput.t, statusReserve,
                        AwaitedPromise.state = "true")
  /\ UNCHANGED <<statusInput, statusReserve, statusPromise, statusSubmitted,
                 cacheRecipientsNew, promises, destinationCreated>>
  /\ UNCHANGED <<syncVars, scanVars, signVars, buildVars, serverVars>>

\* a payment of some wallet creates the account of DestinationAddress
DestinationCreated ==
  /\ ~ destinationCreated
  /\ destinationCreated' = TRUE
  /\ UNCHANGED <<statusPc, statusInput, statusReserve, statusResult, statusOutcome,
                 statusPromise, statusSubmitted, cacheRecipientsNew, promises>>
  /\ UNCHANGED <<syncVars, scanVars, signVars, buildVars, serverVars>>

StatusNext ==
  \/ getTransactionStatus
  \/ StatusServerInfoFails
  \/ StatusServerInfo
  \/ RecipientIsNewSettles
  \/ RecipientIsNewFails
  \/ StatusRecipientIsNew
  \/ DestinationCreated

(***************************************************************************)
(* signAndBroadcast                                                        *)
(***************************************************************************)
\* the accounts and drafts signAndBroadcast is called with; fee is null or a
\* BigNumber, tag is undefined or a number
SignAccounts ==
  { a \in InitialAccounts : a.blockHeight = 1 /\ Len(a.operations) <= 1 }
SignDrafts ==
  [fee : { Null, Some(1) },
   amount : { 9 },
   recipient : { DestinationAddress },
   tag : { Null, Some("7") }]

\* computeBinaryTransactionHash(transaction)
SignedHash == "hSigned"

\* the errors the awaited calls throw: an Error of the network or of the
\* device, or a RippledError of the server with or without data.resultMessage
ThrownErrors ==
  { [name |-> "Error", message |-> m, resultMessage |-> Null] : m \in ErrorMessages }
    \cup { [name |-> "RippledError", message |-> "rippled", resultMessage |-> r] :
             r \in { Null, Some("Fee insufficient.") } }

\* what api.submit resolves with
SubmitResults ==
  { [resultCode |-> "tesSUCCESS", resultMessage |-> "The transaction was applied."],
    [resultCode |-> "tecUNFUNDED_PAYMENT", resultMessage |-> "Insufficient XRP balance."] }

NoError == [name |-> "none", message |-> ""]
NoThrown == [name |-> "none", message |-> "", resultMessage |-> Null]

\* the catch of doSignAndBroadcast: a RippledError with data.resultMessage is
\* thrown again as an Error of that message, any other error as it is
CaughtError(e) ==
  IF e.name = "RippledError" /\ e.resultMessage # Null
  THEN [name |-> "Error", message |-> e.resultMessage[1]]
  ELSE [name |-> e.name, message |-> e.message]

\* the test before onSigned() with the flag ignored
ProceedsToSubmit_Always(cancelled) == TRUE

\* !isCancelled()
ProceedsToSubmit(cancelled) == ~ cancelled

\* the test of the result code accepting any code
SubmitSucceeded_Always(resultCode) == TRUE

\* submittedPayment.resultCode === "tesSUCCESS"
SubmitSucceeded(resultCode) == resultCode = "tesSUCCESS"

SignedEvent == [type |-> "signed", operation |-> Null]

\* the optimistic operation of the "broadcasted" event
BroadcastedOperation(a, t) ==
  [id |-> <<a.id, SignedHash, "OUT">>,
   hash |-> SignedHash,
   accountId |-> a.id,
   type |-> "OUT",
   value |-> t.amount,
   fee |-> t.fee[1],
   blockHeight |-> Null,
   senders |-> <<a.freshAddress>>,
   recipients |-> <<t.recipient>>,
   date |-> Now,
   transactionSequenceNumber |->
     (IF Len(a.operations) > 0 THEN a.operations[1].transactionSequenceNumber
      ELSE 0) + Len(a.pendingOperations),
   extra |-> t.tag]

BroadcastedEvent(a, t) ==
  [type |-> "broadcasted", operation |-> Some(BroadcastedOperation(a, t))]

\* no subscription yet
NoSignInput ==
  [a |-> [id |-> AccountId, freshAddress |-> OwnAddress, operations |-> <<>>,
          pendingOperations |-> <<>>],
   t |-> [fee |-> Null, amount |-> 0, recipient |-> "", tag |-> Null]]

SignInit ==
  /\ signPc = "idle"
  /\ signInput = NoSignInput
  /\ signCancelled = FALSE
  /\ signCancelledAt = "none"
  /\ signTransport = "none"
  /\ signApi = "none"
  /\ signSubmits = 0
  /\ signResult = "none"
  /\ signThrown = NoThrown
  /\ signEvents = <<>>
  /\ signOutcome = "none"
  /\ signError = NoError

\* doSignAndBroadcast is over: finally api.disconnect(), then o.complete()
\* or o.error(e)
SignEnd(outcome, e) ==
  /\ signPc' = "done"
  /\ signApi' = "disconnected"
  /\ signOutcome' = outcome
  /\ signError' = e

\* signAndBroadcast(a, t, deviceId).subscribe(): the cache entry of the
\* recipient is deleted, doSignAndBroadcast runs up to await api.connect(),
\* or throws FeeNotLoaded outside of its try block
signAndBroadcastOf(accounts, drafts) ==
  /\ signPc = "idle"
  /\ scanPc = "idle"
  /\ \E a \in accounts, t \in drafts :
       /\ signInput' = [a |-> a, t |-> t]
       /\ cacheRecipientsNew' = DeleteEntry(cacheRecipientsNew, t.recipient)
       /\ IF t.fee = Null
          THEN /\ signPc' = "done"
               /\ signOutcome' = "error"
               /\ signError' = [name |-> "FeeNotLoaded", message |-> ""]
          ELSE /\ signPc' = "connect"
               /\ signOutcome' = "none"
               /\ signError' = NoError
  /\ signCancelled' = FALSE
  /\ signCancelledAt' = "none"
  /\ signTransport' = "none"
  /\ signApi' = "none"
  /\ signSubmits' = 0
  /\ signResult' = "none"
  /\ signThrown' = NoThrown
  /\ signEvents' = <<>>
  /\ UNCHANGED <<statusPc, statusInput, statusReserve, statusResult, statusOutcome,
                 statusPromise, statusSubmitted, promises, destinationCreated>>
  /\ UNCHANGED <<syncVars, scanVars, buildVars, serverVars>>

signAndBroadcast == signAndBroadcastOf(SignAccounts, SignDrafts)

\* the function returned to the subscriber: cancelled = true
SignCancel ==
  /\ signPc \notin { "idle", "done" }
  /\ ~ signCancelled
  /\ signCancelled' = TRUE
  /\ signCancelledAt' = signPc
  /\ UNCHANGED <<signPc, signInput, signTransport, signApi, signSubmits, signResult,
                 signThrown, signEvents, signOutcome, signError>>
  /\ UNCHANGED <<syncVars, scanVars, statusVars, buildVars, serverVars>>

\* an awaited call throws: the catch block, the finally blocks, o.error(e)
SignFail(at) ==
  /\ signPc = at
  /\ \E e \in ThrownErrors :
       /\ signThrown' = e
       /\ SignEnd("error", CaughtError(e))
  /\ signTransport' = CloseTransport(signTransport)
  /\ UNCHANGED <<signInput, signCancelled, signCancelledAt, signSubmits, signResult,
                 signEvents>>
  /\ UNCHANGED <<syncVars, scanVars, statusVars, buildVars, serverVars>>

SignConnectFails == SignFail("connect")
SignPreparePaymentFails == SignFail("preparePayment")
SignOpenFails == SignFail("open")
SignTransactionFails == SignFail("signTransaction")
SignSubmitFails == SignFail("submit")

\* await api.connect()
SignConnected ==
  /\ signPc = "connect"
  /\ signPc' = "preparePayment"
  /\ signApi' = "connected"
  /\ UNCHANGED <<signInput, signCancelled, signCancelledAt, signTransport,
                 signSubmits, signResult, signThrown, signEvents, signOutcome,
                 signError>>
  /\ UNCHANGED <<syncVars, scanVars, statusVars, buildVars, serverVars>>

\* prepared = await api.preparePayment(...)
SignPrepared ==
  /\ signPc = "preparePayment"
  /\ signPc' = "open"
  /\ UNCHANGED <<signInput, signCancelled, signCancelledAt, signTransport, signApi,
                 signSubmits, signResult, signThrown, signEvents, signOutcome,
                 signError>>
  /\ UNCHANGED <<syncVars, scanVars, statusVars, buildVars, serverVars>>

\* transport = await open(deviceId); signTransaction is called
SignOpened ==
  /\ signPc = "open"
  /\ signPc' = "signTransaction"
  /\ signTransport' = "open"
  /\ UNCHANGED <<signInput, signCancelled, signCancelledAt, signApi, signSubmits,
                 signResult, signThrown, signEvents, signOutcome, signError>>
  /\ UNCHANGED <<syncVars, scanVars, statusVars, buildVars, serverVars>>

\* transaction = await signTransaction(...); finally transport.close(); then
\* onSigned() and api.submit(transaction) unless isCancelled()
SignTransaction ==
  /\ signPc = "signTransaction"
  /\ signTransport' = CloseTransport(signTransport)
  /\ IF ProceedsToSubmit(signCancelled)
     THEN /\ signEvents' = Append(signEvents, SignedEvent)
          /\ signSubmits' = signSubmits + 1
          /\ signPc' = "submit"
          /\ UNCHANGED <<signApi, signOutcome, signError>>
     ELSE /\ SignEnd("complete", NoError)
          /\ UNCHANGED <<signEvents, signSubmits>>
  /\ UNCHANGED <<signInput, signCancelled, signCancelledAt, signResult, signThrown>>
  /\ UNCHANGED <<syncVars, scanVars, statusVars, buildVars, serverVars>>

\* submittedPayment = await api.submit(transaction): an Error of the result
\* message, or onOperationBroadcasted(operation)
SignSubmitted ==
  /\ signPc = "submit"
  /\ \E submittedPayment \in SubmitResults :
       /\ signResult' = submittedPayment.resultCode
       /\ IF SubmitSucceeded(submittedPayment.resultCode)
          THEN /\ signEvents' =
                    Append(signEvents, BroadcastedEvent(signInput.a, signInput.t))
               /\ SignEnd("complete", NoError)
          ELSE /\ SignEnd("error", [name |-> "Error",
                                    message |-> submittedPayment.resultMessage])
               /\ UNCHANGED signEvents
  /\ UNCHANGED <<signInput, signCancelled, signCancelledAt, signTransport,
                 signSubmits, signThrown>>
  /\ UNCHANGED <<syncVars, scanVars, statusVars, buildVars, serverVars>>

SignNext ==
  \/ signAndBroadcast
  \/ SignCancel
  \/ SignConnectFails
  \/ SignPreparePaymentFails
  \/ SignOpenFails
  \/ SignTransactionFails
  \/ SignSubmitFails
  \/ SignConnected
  \/ SignPrepared
  \/ SignOpened
  \/ SignTransaction
  \/ SignSubmitted

(***************************************************************************)
(* The transaction builders of libcore: bitcoin, ethereum                  *)
(***************************************************************************)
\* strings that are decoded are sequences of their characters
HexChars ==
  <<"0", "1", "2", "3", "4", "5", "6", "7", "8", "9", "a", "b", "c", "d", "e", "f">>
UpperHexChars == <<"A", "B", "C", "D", "E", "F">>

IsHex(c) ==
  \/ \E i \in 1..Len(HexChars) : HexChars[i] = c
  \/ \E i \in 1..Len(UpperHexChars) : UpperHexChars[i] = c

HexValue(c) ==
  IF \E i \in 1..Len(HexChars) : HexChars[i] = c
  THEN (CHOOSE i \in 1..Len(HexChars) : HexChars[i] = c) - 1
  ELSE (CHOOSE i \in 1..Len(UpperHexChars) : UpperHexChars[i] = c) + 9

\* Buffer.from(string, "hex"): a byte per pair of hex digits, up to the first
\* pair that is not one; a last digit without a pair is left out
RECURSIVE BufferFromHex(_)
BufferFromHex(s) ==
  IF Len(s) < 2 \/ ~ IsHex(s[1]) \/ ~ IsHex(s[2]) THEN <<>>
  ELSE <<16 * HexValue(s[1]) + HexValue(s[2])>> \o BufferFromHex(SubSeq(s, 3, Len(s)))

\* buffer.toString("hex")
RECURSIVE BufferToHex(_)
BufferToHex(bytes) ==
  IF bytes = <<>> THEN <<>>
  ELSE <<HexChars[(bytes[1] \div 16) + 1], HexChars[(bytes[1] % 16) + 1]>>
         \o BufferToHex(Tail(bytes))

\* Buffer.alloc(size)
BufferAlloc(size) == [i \in 1..size |-> 0]

\* string.replace("0x", ""): the first "0x" of the string is taken out
Replace0x(s) ==
  LET at == { i \in 1..(Len(s) - 1) : s[i] = "0" /\ s[i + 1] = "x" }
  IN IF at = {} THEN s
     ELSE LET i == CHOOSE i \in at : \A j \in at : i <= j
          IN SubSeq(s, 1, i - 1) \o SubSeq(s, i + 2, Len(s))

\* the digits of n > 0 in base 16, the first one not zero
RECURSIVE HexDigitsOf(_)
HexDigitsOf(n) ==
  IF n = 0 THEN <<>> ELSE Append(HexDigitsOf(n \div 16), HexChars[(n % 16) + 1])

\* amount.toString(16) of a BigNumber
toString16(b) ==
  IF isNaN(b) THEN <<"N", "a", "N">>
  ELSE IF b.v = 0 THEN <<"0">>
  ELSE HexDigitsOf(b.v)

\* the hex string handed to Buffer.from as it is
EvenHex_AsIs(amountHex) == amountHex

\* amountHex.length % 2 === 0 ? amountHex : "0" + amountHex
EvenHex(amountHex) ==
  IF Len(amountHex) % 2 = 0 THEN amountHex ELSE <<"0">> \o amountHex

\* BigNumber(transaction.amount): NaN of an amount that is not there
BigNumberOf(amount) == IF amount = Null THEN BigNaN ELSE BN(amount[1])

ethereumTransferMethodID == BufferFromHex(<<"a", "9", "0", "5", "9", "c", "b", "b">>)

\* a recipient of 20 bytes, one of 19 bytes, and the contract of the token
Recipient20 ==
  <<"0", "x", "d", "1", "a", "2", "b", "3", "c", "4", "e", "5", "f",
  "6", "0", "7", "1", "8", "2", "9", "3", "a", "4", "b", "5", "c", "6",
  "d", "7", "e", "8", "f", "9", "0", "0", "1", "A", "B", "C", "D", "E",
  "F">>
Recipient19 ==
  <<"0", "x", "d", "1", "a", "2", "b", "3", "c", "4", "e", "5", "f",
  "6", "0", "7", "1", "8", "2", "9", "3", "a", "4", "b", "5", "c", "6",
  "d", "7", "e", "8", "f", "9", "0", "0", "1", "A", "B", "C", "D">>
ContractAddress ==
  <<"0", "x", "c", "0", "f", "f", "e", "e", "2", "5", "4", "7", "2",
  "9", "2", "9", "6", "a", "4", "5", "a", "3", "8", "8", "5", "6", "3",
  "9", "a", "c", "7", "e", "1", "0", "f", "9", "d", "5", "4", "9", "7",
  "9">>

\* to256
To256(transaction) ==
  BufferAlloc(12) \o BufferFromHex(Replace0x(transaction.recipient))

\* amountBuf
AmountBuf(transaction, tokenAccount) ==
  LET amount == IF transaction.useAllAmount THEN tokenAccount.balance
                ELSE BigNumberOf(transaction.amount)
  IN BufferFromHex(EvenHex(toString16(amount)))

\* data
TokenData(transaction, tokenAccount) ==
  LET amountBuf == AmountBuf(transaction, tokenAccount)
      amount256 == BufferAlloc(32 - Len(amountBuf)) \o amountBuf
  IN ethereumTransferMethodID \o To256(transaction) \o amount256

\* an awaited call of a builder: the object it is made on, the method, its
\* argument, and whether isCancelled() is tested when it has resolved
Call(on, name, arg, checked) ==
  [on |-> on, name |-> name, arg |-> arg, checked |-> checked]

\* a throw statement reached between two awaited calls
Throw(name) == [on |-> "throw", name |-> name, arg |-> <<>>, checked |-> FALSE]

\* bitcoin(...): the awaited calls in the order of the code, up to the throw
\* statement the transaction leads to; isValid is what isValidRecipient
\* resolves with
bitcoin(transaction, isValid) ==
  <<Call("coreAccount", "asBitcoinLikeAccount", <<>>, FALSE),
    Call("module", "isValidRecipient", transaction.recipient, FALSE)>>
  \o (IF isValid # Null THEN <<Throw("InvalidAddress")>> ELSE <<>>)
  \o (IF transaction.fee = Null THEN <<Throw("FeeNotLoaded")>> ELSE <<>>)
  \o <<Call("module", "bigNumberToLibcoreAmount", <<"fees", transaction.fee>>, TRUE),
       Call("bitcoinLikeAccount", "buildTransaction", <<>>, TRUE)>>
  \o (IF transaction.useAllAmount
      THEN <<Call("transactionBuilder", "wipeToAddress", transaction.recipient, TRUE)>>
      ELSE IF transaction.amount = Null THEN <<Throw("amount is missing")>>
      ELSE <<Call("module", "bigNumberToLibcoreAmount",
                  <<"amount", transaction.amount>>, TRUE),
             Call("transactionBuilder", "sendToAddress",
                  <<transaction.amount, transaction.recipient>>, TRUE)>>)
  \o <<Call("transactionBuilder", "pickInputs", <<>>, TRUE),
       Call("transactionBuilder", "setFeesPerByte", transaction.fee, TRUE),
       Call("transactionBuilder", "build", <<>>, TRUE)>>

\* ethereum(...): the same for the ethereum builder; tokenAccount is Null or
\* the token account of the transfer
ethereum(transaction, tokenAccount, isValid) ==
  <<Call("coreAccount", "asEthereumLikeAccount", <<>>, FALSE),
    Call("module", "isValidRecipient", transaction.recipient, FALSE)>>
  \o (IF isValid # Null THEN <<Throw("InvalidAddress")>> ELSE <<>>)
  \o (IF transaction.fee = Null THEN <<Throw("FeeNotLoaded")>> ELSE <<>>)
  \o <<Call("module", "bigNumberToLibcoreAmount", <<"gasPrice", transaction.fee>>, FALSE),
       Call("module", "bigNumberToLibcoreAmount", <<"gasLimit", transaction.fee>>, TRUE),
       Call("ethereumLikeAccount", "buildTransaction", <<>>, TRUE)>>
  \o (IF tokenAccount # Null
      THEN (IF Len(To256(transaction)) # 32
            THEN <<Throw("Invariant Violation: recipient is invalid")>> ELSE <<>>)
           \o (IF Len(AmountBuf(transaction, tokenAccount[1])) > 32
               THEN <<Throw("RangeError")>> ELSE <<>>)
           \o <<Call("transactionBuilder", "setInputData",
                     BufferToHex(TokenData(transaction, tokenAccount[1])), FALSE),
                Call("module", "bigNumberToLibcoreAmount", <<"zeroAmount", Some(0)>>, FALSE),
                Call("transactionBuilder", "sendToAddress",
                     <<Some(0), tokenAccount[1].token.contractAddress>>, FALSE)>>
      ELSE IF transaction.useAllAmount
      THEN <<Call("transactionBuilder", "wipeToAddress", transaction.recipient, TRUE)>>
      ELSE IF transaction.amount = Null THEN <<Throw("amount is missing")>>
      ELSE <<Call("module", "bigNumberToLibcoreAmount",
                  <<"amount", transaction.amount>>, TRUE),
             Call("transactionBuilder", "sendToAddress",
                  <<transaction.amount, transaction.recipient>>, TRUE)>>)
  \o <<Call("transactionBuilder", "setGasLimit", transaction.fee, TRUE),
       Call("transactionBuilder", "setGasPrice", transaction.fee, TRUE),
       Call("transactionBuilder", "build", <<>>, TRUE)>>

\* byFamily[opts.account.currency.family](opts)
byFamily(input) ==
  IF input.family = "bitcoin" THEN bitcoin(input.transaction, input.isValid)
  ELSE ethereum(input.transaction, input.tokenAccount, input.isValid)

\* the token account of a transfer of tokens
TokenAccounts ==
  { [balance |-> BN(65536), token |-> [contractAddress |-> ContractAddress]] }

\* the drafts: fee stands for feePerByte, or for gasPrice and gasLimit
BuildTransactions ==
  [recipient : { Recipient20, Recipient19 },
   amount : { Null, Some(255), Some(4095) },
   useAllAmount : BOOLEAN,
   fee : { Null, Some(2) }]

\* the options of a build; isValid is the answer of isValidRecipient, null
\* for a recipient it accepts
BuildInputs ==
  { [family |-> f[1], tokenAccount |-> f[2], transaction |-> t, isValid |-> v] :
      f \in ({ <<"bitcoin", Null>>, <<"ethereum", Null>> }
               \cup { <<"ethereum", Some(k)>> : k \in TokenAccounts }),
      t \in BuildTransactions,
      v \in { Null, Some("InvalidAddress") } }

NoBuildInput ==
  [family |-> "bitcoin", tokenAccount |-> Null, isValid |-> Null,
   transaction |-> [recipient |-> <<>>, amount |-> Null,
                    useAllAmount |-> FALSE, fee |-> Null]]

BuildInit ==
  /\ buildPc = 0
  /\ buildInput = NoBuildInput
  /\ buildCancelled = FALSE
  /\ buildCallsThen = 0
  /\ buildCalls = <<>>
  /\ buildOutcome = "none"

\* the builder is suspended at an awaited call
Building == buildPc > 0 /\ buildOutcome = "none"

\* the default export is called: the builder of the family runs up to its
\* first await
build ==
  /\ buildPc = 0
  /\ \E input \in BuildInputs :
       /\ buildInput' = input
       /\ buildCalls' = <<byFamily(input)[1]>>
  /\ buildPc' = 1
  /\ buildCancelled' = FALSE
  /\ buildCallsThen' = 0
  /\ buildOutcome' = "none"
  /\ UNCHANGED <<syncVars, scanVars, statusVars, signVars, serverVars>>

\* isCancelled() starts to return true
BuildCancel ==
  /\ Building
  /\ ~ buildCancelled
  /\ buildCancelled' = TRUE
  /\ buildCallsThen' = Len(buildCalls)
  /\ UNCHANGED <<buildPc, buildInput, buildCalls, buildOutcome>>
  /\ UNCHANGED <<syncVars, scanVars, statusVars, signVars, serverVars>>

\* the awaited call rejects: so does the builder
BuildRejected ==
  /\ Building
  /\ \E msg \in ErrorMessages : buildOutcome' = msg
  /\ UNCHANGED <<buildPc, buildInput, buildCancelled, buildCallsThen, buildCalls>>
  /\ UNCHANGED <<syncVars, scanVars, statusVars, signVars, serverVars>>

\* the awaited call resolves: the builder returns if isCancelled() is tested
\* there and true, returns builded after the last call, throws, or makes its
\* next call
BuildResumes(steps) ==
  /\ Building
  /\ IF steps[buildPc].checked /\ buildCancelled
     THEN /\ buildOutcome' = "nothing"
          /\ UNCHANGED <<buildPc, buildCalls>>
     ELSE IF buildPc = Len(steps)
     THEN /\ buildOutcome' = "builded"
          /\ UNCHANGED <<buildPc, buildCalls>>
     ELSE IF steps[buildPc + 1].on = "throw"
     THEN /\ buildOutcome' = steps[buildPc + 1].name
          /\ UNCHANGED <<buildPc, buildCalls>>
     ELSE /\ buildPc' = buildPc + 1
          /\ buildCalls' = Append(buildCalls, steps[buildPc + 1])
          /\ UNCHANGED buildOutcome
  /\ UNCHANGED <<buildInput, buildCancelled, buildCallsThen>>
  /\ UNCHANGED <<syncVars, scanVars, statusVars, signVars, serverVars>>

BitcoinResumes ==
  /\ buildInput.family = "bitcoin"
  /\ BuildResumes(bitcoin(buildInput.transaction, buildInput.isValid))

EthereumResumes ==
  /\ buildInput.family = "ethereum"
  /\ BuildResumes(ethereum(buildInput.transaction, buildInput.tokenAccount,
                           buildInput.isValid))

BuildNext ==
  \/ build
  \/ BuildCancel
  \/ BuildRejected
  \/ BitcoinResumes
  \/ EthereumResumes

(***************************************************************************)
(* getServerInfo                                                           *)
(***************************************************************************)
\* the calls of getServerInfo of a behaviour, and the time that passes
MaxCalls == 3
MaxClock == 120000
Delays == { 30000 }

\* the wait of throttle, in milliseconds
wait == 60000

\* the endpointConfig of an account: none, or the address of a server
EndpointConfigs == { Null, Some("wss://s2") }

\* if (!endpointConfig) endpointConfig = ""
EndpointKey(endpointConfig) ==
  IF endpointConfig = Null THEN "" ELSE endpointConfig[1]

Endpoints == { EndpointKey(e) : e \in EndpointConfigs }

Undefined == -1

\* the closure of throttle(func, 60000), which is debounce(func, 60000,
\* { leading: true, maxWait: 60000, trailing: true }): lastArgs is the call
\* whose arguments are kept, timerId the time the timer is due at, result
\* the request func returned the promise of
NewThrottle ==
  [created |-> FALSE, lastCallTime |-> Undefined, lastInvokeTime |-> 0,
   timerId |-> Undefined, lastArgs |-> 0, result |-> 0]

\* shouldInvoke(time)
shouldInvoke(f, time) ==
  \/ f.lastCallTime = Undefined
  \/ time - f.lastCallTime >= wait
  \/ time - f.lastCallTime < 0
  \/ time - f.lastInvokeTime >= wait

\* remainingWait(time)
remainingWait(f, time) ==
  LET timeWaiting == wait - (time - f.lastCallTime)
      maxWaiting == wait - (time - f.lastInvokeTime)
  IN IF timeWaiting <= maxWaiting THEN timeWaiting ELSE maxWaiting

\* invokeFunc(time): func runs and starts request n
invokeFunc(f, time, n) ==
  [f EXCEPT !.lastArgs = 0, !.lastInvokeTime = time, !.result = n]

\* f.cancel()
cancel(f) ==
  [f EXCEPT !.timerId = Undefined, !.lastInvokeTime = 0, !.lastArgs = 0,
            !.lastCallTime = Undefined]

\* the request func starts: api.connect() of a new api
NewRequest(endpoint, time, call) ==
  [endpoint |-> endpoint, startedAt |-> time, state |-> "pending", byCall |-> call]

\* the requests of the endpoint that are in flight, or that started less
\* than wait ago and did not fail
Covering(endpoint) ==
  { j \in 1..Len(requests) :
      /\ requests[j].endpoint = endpoint
      /\ \/ requests[j].state = "pending"
         \/ requests[j].state = "resolved" /\ clock - requests[j].startedAt < wait }

ServerInit ==
  /\ clock = 0
  /\ map = [e \in Endpoints |-> NewThrottle]
  /\ requests = <<>>
  /\ calls = <<>>

\* getServerInfo(endpointConfig): the throttled function of the endpoint is
\* created when the map has none, and called; it invokes func on the leading
\* edge, or returns the result of the last invocation
getServerInfo ==
  /\ Len(calls) < MaxCalls
  /\ \E endpointConfig \in EndpointConfigs :
       LET endpoint == EndpointKey(endpointConfig)
           f == map[endpoint]
           call == Len(calls) + 1
           n == Len(requests) + 1
           called == [f EXCEPT !.created = TRUE, !.lastArgs = call,
                               !.lastCallTime = clock]
           timed == [called EXCEPT !.timerId = clock + wait]
           invoking == shouldInvoke(f, clock)
           logged(got) ==
             Append(calls, [endpoint |-> endpoint, at |-> clock, got |-> got,
                            seen |-> Len(requests),
                            covering |-> Covering(endpoint),
                            failed |-> /\ f.result # 0
                                       /\ requests[f.result].state = "rejected"])
       IN IF invoking
          THEN /\ map' = [map EXCEPT ![endpoint] = invokeFunc(timed, clock, n)]
               /\ requests' = Append(requests, NewRequest(endpoint, clock, call))
               /\ calls' = logged(n)
          ELSE /\ map' = [map EXCEPT ![endpoint] =
                            IF f.timerId = Undefined THEN timed ELSE called]
               /\ requests' = requests
               /\ calls' = logged(f.result)
  /\ UNCHANGED clock
  /\ UNCHANGED <<syncVars, scanVars, statusVars, signVars, buildVars>>

\* timerExpired(): the trailing edge invokes func when a call was made since
\* the last invocation, or the timer is set again
timerExpired ==
  /\ \E endpoint \in Endpoints :
       LET f == map[endpoint]
           n == Len(requests) + 1
           idle == [f EXCEPT !.timerId = Undefined]
       IN /\ f.timerId # Undefined
          /\ clock >= f.timerId
          /\ IF shouldInvoke(f, clock)
             THEN IF f.lastArgs # 0
                  THEN /\ map' = [map EXCEPT ![endpoint] = invokeFunc(idle, clock, n)]
                       /\ requests' =
                            Append(requests, NewRequest(endpoint, clock, f.lastArgs))
                  ELSE /\ map' = [map EXCEPT ![endpoint] = idle]
                       /\ requests' = requests
             ELSE /\ map' = [map EXCEPT ![endpoint].timerId =
                               clock + remainingWait(f, clock)]
                  /\ requests' = requests
  /\ UNCHANGED <<clock, calls>>
  /\ UNCHANGED <<syncVars, scanVars, statusVars, signVars, buildVars>>

\* api.getServerInfo() resolves
ServerInfoResolves ==
  /\ \E j \in 1..Len(requests) :
       /\ requests[j].state = "pending"
       /\ requests' = [requests EXCEPT ![j].state = "resolved"]
  /\ UNCHANGED <<clock, map, calls>>
  /\ UNCHANGED <<syncVars, scanVars, statusVars, signVars, buildVars>>

\* api.connect() or api.getServerInfo() rejects: f.cancel(), and the error
\* is thrown again
ServerInfoRejects ==
  /\ \E j \in 1..Len(requests) :
       /\ requests[j].state = "pending"
       /\ requests' = [requests EXCEPT ![j].state = "rejected"]
       /\ map' = [map EXCEPT ![requests[j].endpoint] = cancel(@)]
  /\ UNCHANGED <<clock, calls>>
  /\ UNCHANGED <<syncVars, scanVars, statusVars, signVars, buildVars>>

\* time passes, no further than the next timer
TimePasses ==
  /\ \E d \in Delays :
       /\ clock + d <= MaxClock
       /\ \A endpoint \in Endpoints :
            map[endpoint].timerId = Undefined \/ map[endpoint].timerId >= clock + d
       /\ clock' = clock + d
  /\ UNCHANGED <<map, requests, calls>>
  /\ UNCHANGED <<syncVars, scanVars, statusVars, signVars, buildVars>>

ServerNext ==
  \/ getServerInfo
  \/ timerExpired
  \/ ServerInfoResolves
  \/ ServerInfoRejects
  \/ TimePasses

(***************************************************************************)
(* The account of a subscriber of signAndBroadcast                         *)
(***************************************************************************)
\* the subscriber's reducer of the "broadcasted" event: the operation is
\* appended to pendingOperations
addPendingOperation(a, operation) ==
  [a EXCEPT !.pendingOperations = Append(@, operation)]

\* the operation of a "broadcasted" event was appended to the account held
HasBroadcastedPending ==
  \E i \in 1..Len(account.pendingOperations) :
    account.pendingOperations[i].hash = SignedHash

\* the subscriber receives the "broadcasted" event of the account it passed
\* to signAndBroadcast and holds the account with the operation appended
BroadcastedPending ==
  /\ syncPc = "idle"
  /\ ~ HasBroadcastedPending
  /\ \E i \in 1..Len(signEvents) :
       /\ signEvents[i].type = "broadcasted"
       /\ account' = addPendingOperation(signInput.a, signEvents[i].operation[1])
  /\ prevAccount' = account'
  /\ initialAccount' = account'
  /\ UNCHANGED <<syncPc, syncFinished, syncArgs, syncLedgers, syncBalance,
                 syncRequest, syncEmitted, syncOutcome, applied>>
  /\ UNCHANGED <<scanVars, statusVars, signVars, buildVars, serverVars>>

\* startSync(account).subscribe() for the account that holds the operation
SyncOfPending ==
  /\ HasBroadcastedPending
  /\ startSync

PendingNext ==
  \/ SignNext
  \/ BroadcastedPending
  \/ SyncOfPending
  \/ SyncUnsubscribe
  \/ SyncConnected
  \/ SyncConnectFails
  \/ SyncServerInfo
  \/ SyncServerInfoFails
  \/ SyncAccountNotFound
  \/ SyncAccountInfo
  \/ SyncAccountInfoFails
  \/ SyncTransactions
  \/ SyncTransactionsFail
  \/ SyncApply

(***************************************************************************)
(* getTransactionStatus while signAndBroadcast runs                        *)
(***************************************************************************)
\* the draft of a payment to one of two recipients, of an account that can
\* afford it: each call reaches cachedRecipientIsNew
CacheAccounts == { a \in StatusAccounts : a.balance = 60 }
CacheDrafts ==
  { t \in StatusDrafts : /\ t.fee = Some(1)
                         /\ t.amount = 9
                         /\ t.recipient \in { DestinationAddress, OwnAddress } }

CacheStatus == getTransactionStatusOf(CacheAccounts, CacheDrafts)

CacheSignAccounts ==
  { a \in SignAccounts : a.operations = <<>> /\ a.pendingOperations = <<>> }
CacheSignDrafts == { t \in SignDrafts : t.tag = Null }

CacheSign == signAndBroadcastOf(CacheSignAccounts, CacheSignDrafts)

CacheNext ==
  \/ CacheStatus
  \/ StatusServerInfoFails
  \/ StatusServerInfo
  \/ RecipientIsNewSettles
  \/ RecipientIsNewFails
  \/ StatusRecipientIsNew
  \/ DestinationCreated
  \/ CacheSign
  \/ SignCancel
  \/ SignConnected
  \/ SignConnectFails
  \/ SignPrepared
  \/ SignPreparePaymentFails
  \/ SignOpened
  \/ SignOpenFails
  \/ SignTransaction
  \/ SignTransactionFails
  \/ SignSubmitted
  \/ SignSubmitFails

\* no sync runs: the account is one of the initial accounts
SyncQuiet ==
  /\ SyncInit
  /\ account.operations = <<>>
  /\ account.pendingOperations = <<>>
  /\ account.blockHeight = 1

\* one startSync subscription, for any of the initial accounts
InitSync == SyncInit /\ ScanInit /\ StatusInit /\ SignInit /\ BuildInit /\ ServerInit

SpecSync == InitSync /\ [][SyncNext]_vars

\* one scanAccountsOnDevice subscription
InitScan == SyncQuiet /\ ScanInit /\ StatusInit /\ SignInit /\ BuildInit /\ ServerInit

SpecScan == InitScan /\ [][ScanNext]_vars

InitStatus == SyncQuiet /\ ScanInit /\ StatusInit /\ SignInit /\ BuildInit /\ ServerInit

\* calls of getTransactionStatus, one after the other
SpecStatus == InitStatus /\ [][StatusNext]_vars

InitSign == SyncQuiet /\ ScanInit /\ StatusInit /\ SignInit /\ BuildInit /\ ServerInit

\* one subscription to signAndBroadcast
SpecSign == InitSign /\ [][SignNext]_vars

InitDevice == SyncQuiet /\ ScanInit /\ StatusInit /\ SignInit /\ BuildInit /\ ServerInit

DeviceNext == ScanNext \/ SignNext

\* the operations that open the device: one scan, or one subscription to
\* signAndBroadcast
SpecDevice == InitDevice /\ [][DeviceNext]_vars

InitBuild == SyncQuiet /\ ScanInit /\ StatusInit /\ SignInit /\ BuildInit /\ ServerInit

\* one build
SpecBuild == InitBuild /\ [][BuildNext]_vars

InitPending == SyncQuiet /\ ScanInit /\ StatusInit /\ SignInit /\ BuildInit /\ ServerInit

\* one subscription to signAndBroadcast, then one sync of the account that
\* holds the operation of the "broadcasted" event
SpecPending == InitPending /\ [][PendingNext]_vars

InitCache == SyncQuiet /\ ScanInit /\ StatusInit /\ SignInit /\ BuildInit /\ ServerInit

\* calls of getTransactionStatus, one after the other, while one subscription
\* to signAndBroadcast runs
SpecCache == InitCache /\ [][CacheNext]_vars

InitServer ==
  SyncQuiet /\ ScanInit /\ StatusInit /\ SignInit /\ BuildInit /\ ServerInit

\* calls of getServerInfo as time passes
SpecServer == InitServer /\ [][ServerNext]_vars

(***************************************************************************)
(* Properties of the sync update                                           *)
(***************************************************************************)
\* the update of the last sync has been applied, and it was a merge
Merged == applied >= 1 /\ syncEmitted.kind = "merge"

Descending(ops) ==
  \A i \in 1..Len(ops) : \A j \in 1..Len(ops) : i < j => ops[i].date >= ops[j].date

StrictlyDescending(ops) ==
  \A i \in 1..Len(ops) : \A j \in 1..Len(ops) : i < j => ops[i].date > ops[j].date

NoDuplicateId(ops) ==
  \A i \in 1..Len(ops) : \A j \in 1..Len(ops) : i # j => ops[i].id # ops[j].id

NoDuplicateTx(txs) ==
  \A i \in 1..Len(txs) : \A j \in 1..Len(txs) : i # j => txs[i].id # txs[j].id

HashConfirmed(ops, p) == \E i \in 1..Len(ops) : ops[i].hash = p.hash

\* C1: applying the update function of one sync a second time leaves the
\* operations list as the first application left it, element by element.
C1_MergeIdempotent ==
  (applied = 2 /\ syncEmitted.kind = "merge")
    => account.operations = prevAccount.operations

\* the update was applied twice and its batch of several transactions had
\* added operations to the list
C1_Witness ==
  /\ applied = 2
  /\ syncEmitted.kind = "merge"
  /\ Len(syncEmitted.transactions) >= 2
  /\ initialAccount.operations # <<>>
  /\ Len(account.operations) > Len(initialAccount.operations)

C3_PendingFiltered ==
  Merged =>
    LET ops == account.operations
    IN /\ \A i \in 1..Len(account.pendingOperations) :
            LET p == account.pendingOperations[i]
            IN /\ ~ HashConfirmed(ops, p)
               /\ ops # <<>>
               /\ p.transactionSequenceNumber > ops[1].transactionSequenceNumber
       /\ \A j \in 1..Len(prevAccount.pendingOperations) :
            LET p == prevAccount.pendingOperations[j]
            IN (\/ HashConfirmed(ops, p)
                \/ /\ ops # <<>>
                   /\ p.transactionSequenceNumber <= ops[1].transactionSequenceNumber)
                 => p \notin Range(account.pendingOperations)

\* a merge removed a pending operation by its hash although its sequence
\* number is greater than that of the first merged operation
C3_Witness ==
  /\ applied = 1
  /\ syncEmitted.kind = "merge"
  /\ \E j \in 1..Len(prevAccount.pendingOperations) :
        LET p == prevAccount.pendingOperations[j]
        IN /\ HashConfirmed(account.operations, p)
           /\ p.transactionSequenceNumber
                > account.operations[1].transactionSequenceNumber
           /\ p \notin Range(account.pendingOperations)

\* C4: after a merge no pending operation is left whose sequence number is
\* reached or passed by the sequence number of some merged operation,
\* whatever the place of that operation in the list.
C4_SupersededPendingDropped ==
  Merged =>
    \A j \in 1..Len(prevAccount.pendingOperations) :
      LET p == prevAccount.pendingOperations[j]
      IN (\E i \in 1..Len(account.operations) :
             account.operations[i].transactionSequenceNumber
               >= p.transactionSequenceNumber)
           => p \notin Range(account.pendingOperations)

(***************************************************************************)
(* Properties of the scan                                                  *)
(***************************************************************************)
IsPlaceholder(a) == a.name = "NewAccountPlaceholderName"

PlaceholdersOf(derivationMode) ==
  { k \in 1..Len(scanEmitted) :
      IsPlaceholder(scanEmitted[k]) /\ scanEmitted[k].derivationMode = derivationMode }

\* C5: the first index of a derivation mode whose address is not found on
\* the chain is the last index probed in that mode; one placeholder account
\* (balance 0, no operations) is emitted for it when the mode is the
\* canonical one and none otherwise; the scan goes on with the first index
\* of the next mode, or completes after the last mode.
C5_DiscoveryTermination ==
  /\ \A nf \in scanNotFound :
       LET derivationMode == DerivationModes[nf[1]]
           next == FirstProbe(nf[1] + 1, 0)
       IN /\ \A p \in scanProbed : p[1] = nf[1] => p[2] <= nf[2]
          /\ Cardinality(PlaceholdersOf(derivationMode))
               = IF derivationMode = "" THEN 1 ELSE 0
          /\ \A k \in PlaceholdersOf(derivationMode) :
               /\ scanEmitted[k].index = nf[2]
               /\ scanEmitted[k].balance = BN(0)
               /\ scanEmitted[k].operations = <<>>
          /\ IF next = ScanDone THEN scanOutcome = "complete"
             ELSE next \in scanProbed
  /\ \A k \in 1..Len(scanEmitted) :
       IsPlaceholder(scanEmitted[k]) =>
         \E nf \in scanNotFound :
           /\ DerivationModes[nf[1]] = scanEmitted[k].derivationMode
           /\ nf[2] = scanEmitted[k].index

\* a complete scan: index 0 of the canonical mode exists, index 1 does not,
\* and neither does the first index of the two other modes
C5_Witness ==
  /\ scanOutcome = "complete"
  /\ scanNotFound = { <<1, 0>>, <<2, 1>>, <<3, 1>> }
  /\ Len(scanEmitted) = 2
  /\ ~ IsPlaceholder(scanEmitted[1])
  /\ IsPlaceholder(scanEmitted[2])

\* C6: once the subscriber has unsubscribed, no account is emitted.
C6_NoEventAfterUnsubscribe ==
  [][scanFinished => scanEmitted' = scanEmitted]_vars

ValidBalance(b) == ~ isNaN(b) /\ isFinite(b) /\ b.v >= 0

\* C7: every account the scan emits, and the account every sync update
\* produces, has a balance that is a number, finite and not negative.
C7_BalancesValid ==
  /\ \A k \in 1..Len(scanEmitted) : ValidBalance(scanEmitted[k].balance)
  /\ Merged => ValidBalance(account.balance)

(***************************************************************************)
(* Properties of getTransactionStatus                                      *)
(***************************************************************************)
ErrorName(field) ==
  IF field \in DOMAIN statusResult.errors THEN statusResult.errors[field].name
  ELSE "none"

ReportedErrors == { statusResult.errors[k].name : k \in DOMAIN statusResult.errors }

\* C8: a draft without fee gets errors.fee = FeeNotLoaded, a draft with a fee
\* of zero errors.fee = FeeRequired, and any other draft gets NotEnoughBalance
\* exactly when amount + fee is greater than balance - reserve; at most one of
\* the three is reported.
C8_FeeErrors ==
  statusOutcome = "resolved" =>
    LET a == statusInput.a
        t == statusInput.t
    IN /\ t.fee = Null => ErrorName("fee") = "FeeNotLoaded"
       /\ (t.fee # Null /\ t.fee[1] = 0) => ErrorName("fee") = "FeeRequired"
       /\ (t.fee # Null /\ t.fee[1] # 0) =>
            /\ ErrorName("fee") = "none"
            /\ statusResult.totalSpent = t.amount + t.fee[1]
            /\ "NotEnoughBalance" \in ReportedErrors
                 <=> t.amount + t.fee[1] > a.balance - statusReserve
       /\ Cardinality(ReportedErrors
                        \cap { "FeeNotLoaded", "FeeRequired", "NotEnoughBalance" }) <= 1

\* a draft the balance cannot pay, with a fee of zero: only FeeRequired
C8_Witness ==
  /\ statusOutcome = "resolved"
  /\ statusInput.t.fee = Some(0)
  /\ statusInput.t.amount > statusInput.a.balance - statusReserve
  /\ ErrorName("fee") = "FeeRequired"
  /\ ErrorName("amount") = "none"

\* C9: warnings.feeTooHigh is set exactly when amount > 0 and fee * 10 >
\* amount, with or without entries in errors, and errors holds nothing but
\* the errors of the fields fee, amount and recipient.
C9_FeeTooHigh ==
  statusOutcome = "resolved" =>
    LET t == statusInput.t
        fee == IF t.fee = Null THEN 0 ELSE t.fee[1]
    IN /\ "feeTooHigh" \in statusResult.warnings
            <=> (t.amount > 0 /\ fee * 10 > t.amount)
       /\ statusResult.warnings \subseteq { "feeTooHigh" }
       /\ DOMAIN statusResult.errors \subseteq { "fee", "amount", "recipient" }
       /\ "FeeTooHigh" \notin ReportedErrors

\* the warning beside an error on amount and an error on recipient
C9_Witness ==
  /\ statusOutcome = "resolved"
  /\ "feeTooHigh" \in statusResult.warnings
  /\ ErrorName("amount") = "NotEnoughBalance"
  /\ ErrorName("recipient") = "RecipientRequired"

\* C10: a draft to an address the chain has no account of, with an amount
\* lower than the reserve, gets NotEnoughBalanceBecauseDestinationNotCreated
\* unless the amount plus the fee (0 when there is none) exceeds the balance
\* less the reserve, the one earlier check that reports on errors.amount; an
\* error on another field does not prevent it.
C10_NewDestinationReported ==
  statusOutcome = "resolved" =>
    LET a == statusInput.a
        t == statusInput.t
        fee == IF t.fee = Null THEN 0 ELSE t.fee[1]
    IN (/\ t.recipient = DestinationAddress
        /\ ~ destinationCreated
        /\ t.amount < statusReserve
        /\ ~ (t.amount + fee > a.balance - statusReserve))
         => ErrorName("amount") = "NotEnoughBalanceBecauseDestinationNotCreated"

\* C11: errors.recipient is RecipientRequired for an empty recipient, else
\* InvalidAddressBecauseDestinationIsAlsoSource for the account's own
\* freshAddress, else InvalidAddress for a recipient that does not decode,
\* else unset, whatever the errors of the fields fee and amount are.
C11_RecipientErrors ==
  statusOutcome = "resolved" =>
    LET a == statusInput.a
        t == statusInput.t
    IN ErrorName("recipient") =
         IF t.recipient = "" THEN "RecipientRequired"
         ELSE IF t.recipient = a.freshAddress
         THEN "InvalidAddressBecauseDestinationIsAlsoSource"
         ELSE IF ~ isRecipientValid(t.recipient) THEN "InvalidAddress"
         ELSE "none"

\* the account's own address as recipient of a draft without fee: the error
\* on recipient stands beside the error on fee
C11_Witness ==
  /\ statusOutcome = "resolved"
  /\ statusInput.t.recipient = statusInput.a.freshAddress
  /\ ErrorName("fee") = "FeeNotLoaded"
  /\ ErrorName("recipient") = "InvalidAddressBecauseDestinationIsAlsoSource"

(***************************************************************************)
(* Properties of signAndBroadcast                                          *)
(***************************************************************************)
EventsOfType(type) == { i \in 1..Len(signEvents) : signEvents[i].type = type }

\* C12: a run emits at most one "signed" and at most one "broadcasted"
\* event, "broadcasted" only after "signed" and only when api.submit returned
\* tesSUCCESS; any other result code ends the run with an error of the
\* chain's result message and without a "broadcasted" event.
C12_SignedThenBroadcasted ==
  /\ Cardinality(EventsOfType("signed")) <= 1
  /\ Cardinality(EventsOfType("broadcasted")) <= 1
  /\ \A i \in EventsOfType("broadcasted") : \E j \in EventsOfType("signed") : j < i
  /\ EventsOfType("broadcasted") # {} => signResult = "tesSUCCESS"
  /\ signResult \notin { "none", "tesSUCCESS" } =>
       /\ signPc = "done"
       /\ signOutcome = "error"
       /\ \E r \in SubmitResults :
            r.resultCode = signResult /\ signError.message = r.resultMessage
       /\ EventsOfType("broadcasted") = {}

\* the run of a payment the chain applied: both events, in order
C12_Witness ==
  /\ signOutcome = "complete"
  /\ signResult = "tesSUCCESS"
  /\ Len(signEvents) = 2
  /\ signEvents[1].type = "signed"
  /\ signEvents[2].type = "broadcasted"

\* C13: a run cancelled while api.connect, api.preparePayment, open or
\* signTransaction is pending emits no event and calls api.submit never, and
\* it ends with an error only if one of the calls threw; without that it
\* completes.
C13_CancelBeforeSigned ==
  signCancelledAt \in { "connect", "preparePayment", "open", "signTransaction" } =>
    /\ signEvents = <<>>
    /\ signSubmits = 0
    /\ signResult = "none"
    /\ signOutcome = "error" => signThrown # NoThrown
    /\ (signPc = "done" /\ signThrown = NoThrown) => signOutcome = "complete"

\* cancelled while the device was signing: the run completed, nothing was
\* emitted or submitted
C13_Witness ==
  /\ signCancelledAt = "signTransaction"
  /\ signPc = "done"
  /\ signTransport = "closed"
  /\ signOutcome = "complete"
  /\ signEvents = <<>>

\* C14: a run cancelled at any await up to and including api.submit emits
\* no "broadcasted" event, and it ends with an error only if a call threw or
\* the chain returned a result code other than tesSUCCESS.
C14_CancelSuppressesBroadcast ==
  signCancelled =>
    /\ EventsOfType("broadcasted") = {}
    /\ signOutcome = "error" =>
         (signThrown # NoThrown \/ signResult \notin { "none", "tesSUCCESS" })

\* C15: an error thrown by an awaited call reaches the subscriber as
\* NetworkDown when its message is one of connectivity, and with its own
\* message (that of the chain for a RippledError) otherwise.
C15_ConnectivityRemapped ==
  (signOutcome = "error" /\ signThrown # NoThrown) =>
    IF remapError(signThrown.message) = "NetworkDown"
    THEN signError.name = "NetworkDown"
    ELSE \/ signError.message = signThrown.message
         \/ signError.message \in Range(signThrown.resultMessage)

(***************************************************************************)
(* Properties of the builders                                              *)
(***************************************************************************)
CallsNamed(name) == { i \in 1..Len(buildCalls) : buildCalls[i].name = name }

\* the build is a transfer of tokens
TokenTransfer == buildPc > 0 /\ buildInput.tokenAccount # Null

\* the bytes a string of hex digits stands for, two digits a byte
BytesOfHex(chars) ==
  [k \in 1..(Len(chars) \div 2) |->
     16 * HexValue(chars[2 * k - 1]) + HexValue(chars[2 * k])]

\* the number a sequence of at most three bytes stands for, big-endian
RECURSIVE BigEndian(_)
BigEndian(bytes) ==
  IF bytes = <<>> THEN 0
  ELSE 256 * BigEndian(SubSeq(bytes, 1, Len(bytes) - 1)) + bytes[Len(bytes)]

\* C16 as stated: a build of a draft without useAllAmount and without amount
\* returns no transaction, and when the recipient is accepted, the fee is
\* there, no call rejects and the build is not cancelled it ends with the
\* error of the missing amount, in the three variants.
C16_MissingAmountFails ==
  LET t == buildInput.transaction
  IN (buildPc > 0 /\ ~ t.useAllAmount /\ t.amount = Null) =>
       /\ buildOutcome # "builded"
       /\ CallsNamed("build") = {}
       /\ (/\ buildOutcome \notin ({ "none" } \cup ErrorMessages)
           /\ ~ buildCancelled
           /\ buildInput.isValid = Null
           /\ t.fee # Null
           /\ t.recipient = Recipient20)
            => buildOutcome = "amount is missing"

\* C17: the input data of a transfer of tokens whose amount is there is 68
\* bytes: a9 05 9c bb, twelve zero bytes, the twenty bytes of the recipient,
\* and the amount (the balance of the token account with useAllAmount) as a
\* big-endian integer of 32 bytes; sendToAddress gets the amount zero and
\* the contract address of the token; with a recipient that is not of twenty
\* bytes no input data is set and no transaction returned.
C17_TokenData ==
  TokenTransfer =>
    LET t == buildInput.transaction
        amount == IF t.useAllAmount THEN buildInput.tokenAccount[1].balance.v
                  ELSE t.amount[1]
        digits == SubSeq(t.recipient, 3, Len(t.recipient))
    IN /\ (t.useAllAmount \/ t.amount # Null) =>
            \A i \in CallsNamed("setInputData") :
              LET data == BytesOfHex(buildCalls[i].arg)
              IN /\ Len(buildCalls[i].arg) = 136
                 /\ Len(data) = 68
                 /\ SubSeq(data, 1, 4) = <<169, 5, 156, 187>>
                 /\ \A k \in 5..16 : data[k] = 0
                 /\ SubSeq(data, 17, 36) = BytesOfHex(digits)
                 /\ \A k \in 37..65 : data[k] = 0
                 /\ BigEndian(SubSeq(data, 66, 68)) = amount
       /\ \A i \in CallsNamed("sendToAddress") :
            buildCalls[i].arg = <<Some(0), ContractAddress>>
       /\ Len(digits) # 40 =>
            /\ CallsNamed("setInputData") = {}
            /\ buildOutcome # "builded"

\* a transfer of 4095 tokens, fff in base 16, was built
C17_Witness ==
  /\ TokenTransfer
  /\ buildOutcome = "builded"
  /\ ~ buildInput.transaction.useAllAmount
  /\ buildInput.transaction.amount = Some(4095)
  /\ CallsNamed("setInputData") # {}
  /\ CallsNamed("sendToAddress") # {}

\* the call is made after the fees or the gas were resolved
AfterFeeResolution(call) ==
  \/ call.on \in { "bitcoinLikeAccount", "ethereumLikeAccount", "transactionBuilder" }
  \/ /\ call.name = "bigNumberToLibcoreAmount"
     /\ call.arg[1] \in { "amount", "zeroAmount" }

\* C19 as stated: when isCancelled() became true while a call made after the
\* fee or gas resolution was pending, no method of transactionBuilder is
\* called after that call, and the build ends by returning nothing unless
\* the pending call rejects.
C19_NoStepAfterCancel ==
  (/\ buildCancelled
   /\ buildCallsThen > 0
   /\ AfterFeeResolution(buildCalls[buildCallsThen])) =>
    /\ \A i \in 1..Len(buildCalls) :
         i > buildCallsThen => buildCalls[i].on # "transactionBuilder"
    /\ buildOutcome \notin ({ "none" } \cup ErrorMessages) => buildOutcome = "nothing"

(***************************************************************************)
(* Properties of the account not found, and of the device                  *)
(***************************************************************************)
\* C18: the update emitted for an account the chain does not have is emitted
\* when getAccountInfo answers, never out of a fetch of transactions, and the
\* sequence completes with it and emits nothing after it; applying it
\* changes lastSyncDate and nothing else of the account it is applied to.
C18_NotFoundTouchesDate ==
  [][/\ (syncEmitted'.kind = "touch" /\ syncEmitted.kind # "touch") =>
          /\ syncPc = "getAccountInfo"
          /\ syncPc' = "done"
          /\ syncOutcome' = "complete"
     /\ syncEmitted.kind = "touch" =>
          /\ syncPc' = "done"
          /\ syncEmitted' = syncEmitted
          /\ account' # account =>
               /\ account'.lastSyncDate = Now
               /\ account' = [account EXCEPT !.lastSyncDate = Now]]_vars

\* the update of an account not found was applied to an account that has
\* operations and pending operations
C18_Witness ==
  /\ syncEmitted.kind = "touch"
  /\ applied = 1
  /\ prevAccount.operations # <<>>
  /\ prevAccount.pendingOperations # <<>>
  /\ account.lastSyncDate # prevAccount.lastSyncDate

\* C20: the device connection a scan or a signAndBroadcast opened is closed
\* when the operation is over, however it ended; in signAndBroadcast it is
\* open only while signTransaction is pending, and closed before api.submit
\* is called and before any event.
C20_DeviceClosed ==
  /\ scanPc = "done" => transport # "open"
  /\ signPc = "done" => signTransport # "open"
  /\ signTransport = "open" => signPc = "signTransaction"
  /\ (signPc = "submit" \/ signSubmits > 0 \/ signEvents # <<>>)
       => signTransport = "closed"

\* signTransaction threw while the run was cancelled: the device is closed
C20_Witness ==
  /\ signPc = "done"
  /\ signCancelledAt = "signTransaction"
  /\ signThrown # NoThrown
  /\ signTransport = "closed"

(***************************************************************************)
(* Properties of the range of a sync                                       *)
(***************************************************************************)
\* C24: for an account the chain has, api.getTransactions is asked for the
\* ledgers from lo to hi: hi is the newest ledger of the server info, lo the
\* greater of the earliest ledger of the server info and the blockHeight of
\* the account, the earliest ledger taking the place of blockHeight for an
\* account without operations; the update emitted carries that hi, and
\* applying it sets blockHeight to it.
C24_SyncRange ==
  [][/\ (syncPc' = "getTransactions" /\ syncPc # "getTransactions") =>
          LET earliest == syncLedgers'[1]
              newest == syncLedgers'[2]
              height == IF Len(account.operations) = 0 THEN earliest
                        ELSE account.blockHeight
              lo == IF height >= earliest THEN height ELSE earliest
          IN /\ syncLedgers' = syncLedgers
             /\ syncRequest' = <<lo, newest>>
     /\ (syncPc = "getTransactions" /\ syncEmitted' # syncEmitted) =>
          /\ syncEmitted'.kind = "merge"
          /\ syncEmitted'.maxLedgerVersion = syncRequest[2]
     /\ (syncEmitted.kind = "merge" /\ account' # account) =>
          account'.blockHeight = syncEmitted.maxLedgerVersion]_vars

\* the sync of an account without operations whose blockHeight is above the
\* earliest ledger asked for the transactions from the earliest ledger on,
\* and its update was applied
C24_Witness ==
  /\ Merged
  /\ initialAccount.operations = <<>>
  /\ initialAccount.blockHeight = 3
  /\ syncEmitted.maxLedgerVersion = 2
  /\ account.blockHeight = 2

(***************************************************************************)
(* Properties of the pending operation of a broadcast                      *)
(***************************************************************************)
\* the operation of the "broadcasted" event
BroadcastedOp == BroadcastedOperation(signInput.a, signInput.t)

\* C25: the operation of the "broadcasted" event, appended to
\* pendingOperations, is still in pendingOperations after a later sync update
\* whose transactions neither have its hash nor a sequence number equal to or
\* above its own.
C25_BroadcastedStaysPending ==
  (/\ Merged
   /\ applied = 1
   /\ BroadcastedOp \in Range(prevAccount.pendingOperations)
   /\ \A i \in 1..Len(syncEmitted.transactions) :
        /\ syncEmitted.transactions[i].id # BroadcastedOp.hash
        /\ syncEmitted.transactions[i].sequence
             < BroadcastedOp.transactionSequenceNumber)
    => BroadcastedOp \in Range(account.pendingOperations)

(***************************************************************************)
(* Properties of the cache of new recipients                               *)
(***************************************************************************)
\* the step is the subscription to signAndBroadcast of a payment to r
SignInitiatedTo(r) ==
  signPc = "idle" /\ signPc' # "idle" /\ signInput'.t.recipient = r

\* the step is a getTransactionStatus for r arriving at cachedRecipientIsNew
LookupReachedFor(r) ==
  /\ statusPc = "getServerInfo"
  /\ statusPc' = "cachedRecipientIsNew"
  /\ statusInput.t.recipient = r

\* C22: a getTransactionStatus that asks whether its recipient is new starts
\* a lookup only when the cache has no entry of the recipient, and awaits the
\* cached promise otherwise; the entry of a recipient changes only by such a
\* first lookup or by the subscription to signAndBroadcast of a payment to
\* that recipient, which removes it at once and leaves the other entries.
C22_CachedUntilSign ==
  [][\A r \in DOMAIN cacheRecipientsNew :
       /\ LookupReachedFor(r) =>
            IF cacheRecipientsNew[r] # 0
            THEN /\ promises' = promises
                 /\ cacheRecipientsNew' = cacheRecipientsNew
                 /\ statusPromise' = cacheRecipientsNew[r]
            ELSE /\ Len(promises'[r]) = Len(promises[r]) + 1
                 /\ promises'[r][Len(promises'[r])].state = "pending"
                 /\ cacheRecipientsNew'[r] = Len(promises'[r])
                 /\ statusPromise' = Len(promises'[r])
       /\ SignInitiatedTo(r) =>
            /\ cacheRecipientsNew'[r] = 0
            /\ \A other \in DOMAIN cacheRecipientsNew \ { r } :
                 cacheRecipientsNew'[other] = cacheRecipientsNew[other]
       /\ cacheRecipientsNew'[r] # cacheRecipientsNew[r] =>
            \/ SignInitiatedTo(r)
            \/ LookupReachedFor(r) /\ cacheRecipientsNew[r] = 0
       /\ Len(promises'[r]) # Len(promises[r]) =>
            LookupReachedFor(r) /\ cacheRecipientsNew[r] = 0]_vars

\* after the subscription to signAndBroadcast removed the entry of the
\* destination, a getTransactionStatus looked the destination up a second
\* time and a later one awaits that second promise, while the entry of the
\* other recipient is still its first promise
C22_Witness ==
  /\ signPc # "idle"
  /\ Len(promises[DestinationAddress]) = 2
  /\ cacheRecipientsNew[DestinationAddress] = 2
  /\ cacheRecipientsNew[OwnAddress] = 1
  /\ statusPc = "cachedRecipientIsNew"
  /\ statusInput.t.recipient = DestinationAddress
  /\ statusPromise = 2
  /\ promises[DestinationAddress][2].state # "pending"

\* C23: a getTransactionStatus that starts after the "broadcasted" event of
\* a payment to its recipient does not resolve with an answer of
\* recipientIsNew that arrived before that event.
C23_NoAnswerFromBeforeSubmit ==
  (/\ statusPc = "done"
   /\ statusOutcome = "resolved"
   /\ statusPromise # 0
   /\ statusSubmitted)
    => AwaitedPromise.submitted

(***************************************************************************)
(* Properties of the cache of getServerInfo                                *)
(***************************************************************************)
\* C21: a call of getServerInfo made while a request of its endpoint is in
\* flight, or less than 60 seconds after one that did not fail started,
\* returns the result of such a request and no request is started for it; a
\* call never returns the result of a request of another endpoint; a call
\* that finds the last request of its endpoint failed returns the result of
\* a request started for it.
C21_ServerInfoShared ==
  \A k \in 1..Len(calls) :
    /\ requests[calls[k].got].endpoint = calls[k].endpoint
    /\ calls[k].covering # {} =>
         /\ calls[k].got \in calls[k].covering
         /\ \A j \in 1..Len(requests) : requests[j].byCall # k
    /\ (calls[k].covering = {} /\ calls[k].failed) =>
         /\ calls[k].got > calls[k].seen
         /\ requests[calls[k].got].byCall = k
====
